---- MODULE Spec2Model ----
(***************************************************************************)
(* Trident Pattern bot (kapdisagar/antigravity, src/forex_bot): the        *)
(* pattern detection engine (indicators.py, fvg_detector.py,               *)
(* trident_pattern.py, time_filter.py) and the simulation engine           *)
(* (backtest.py).                                                          *)
(*                                                                         *)
(* Conventions of the model                                                *)
(*  - a DataFrame is a sequence of rows; the code's 0-based position i is  *)
(*    element i+1 of the sequence (Row, Iloc);                             *)
(*  - prices are integers (a price grid); a moving average is kept in      *)
(*    fixed point, EMA_SCALE units per grid unit, rounded down at every    *)
(*    step, where the code keeps IEEE doubles;                             *)
(*  - a quotient the code computes in floating point and then compares is  *)
(*    compared by cross-multiplication (is_doji), or kept with its         *)
(*    denominator (midpoint_x2, rr_ratio);                                 *)
(*  - a timestamp is a number of minutes since an epoch midnight, UTC      *)
(*    (mt5_connector.py builds naive timestamps, which to_ny_time reads as *)
(*    UTC); New York is taken at its standard offset, UTC-5.               *)
(***************************************************************************)
EXTENDS Integers, Sequences, FiniteSets, TLC

VARIABLES
    pc,            \* position of the running entry point
    symbol,        \* instrument being scanned / backtested
    check_time,    \* validate_trident_pattern's check_time argument
    GOLD_USE_HARD_SL, \* config.GOLD_USE_HARD_SL
    df_30m,        \* intraday candle table
    df_daily,      \* daily candle table
    signal,        \* result of the last validate_trident_pattern call
    trade,         \* BacktestTrade being simulated
    entry_bar_idx, \* simulate_trade_exit's entry_bar_idx
    i,             \* simulate_trade_exit's loop variable
    start_idx,     \* backtest_symbol's window start
    seen_entry_times, \* backtest_symbol's dedup set
    last_trade_idx,   \* backtest_symbol's cool-down anchor
    result,        \* backtest_symbol's BacktestResult
    now,           \* the datetime a time predicate is given; main's ny_now
    MAX_OPEN_TRADES,  \* config.MAX_OPEN_TRADES
    open_positions,   \* the bot's positions at the broker (mt5.positions_get)
    tick,          \* passes of main's loop so far
    hist           \* observation only: what each step did and what a call made on its
                   \* own returned (never read by an action's guard)

vars == <<pc, symbol, check_time, GOLD_USE_HARD_SL, df_30m, df_daily, signal,
          trade, entry_bar_idx, i, start_idx, seen_entry_times, last_trade_idx,
          result, now, MAX_OPEN_TRADES, open_positions, tick, hist>>

\* The variables of the live loop
live == <<now, MAX_OPEN_TRADES, open_positions, tick>>

----------------------------------------------------------------------------
(* Generic helpers *)

Abs(x) == IF x < 0 THEN -x ELSE x

Min(a, b) == IF a <= b THEN a ELSE b

\* len(df)
Length(df) == Len(df)

\* df.iloc[i] for a position 0 <= i < len(df)
Row(df, idx) == df[idx + 1]

\* Whether df.iloc[index] raises IndexError (negative positions count from the end)
IlocInRange(df, index) == index < Len(df) /\ index >= -Len(df)

\* A lookup that counts a negative position from the start of the table
IlocFromStart(df, index) == IF index >= 0 THEN df[index + 1] ELSE df[-index]

\* df.iloc[index], index possibly negative
Iloc(df, index) == IF index >= 0 THEN df[index + 1] ELSE df[Len(df) + index + 1]

----------------------------------------------------------------------------
(* config.py (not among the sources; values as documented in the sources) *)

EMA_FAST_PERIODS == <<5, 9, 13, 21>>

EMA_TREND_PERIOD == 200

\* config.DOJI_BODY_RATIO = DojiRatioNum / DojiRatioDen
DojiRatioNum == 3

DojiRatioDen == 10

\* fractional resolution of a moving average value
EMA_SCALE == 10000

----------------------------------------------------------------------------
(* time_filter.py *)

MinutesPerDay == 1440

\* New York standard time is UTC-5
NY_UTC_OFFSET_MIN == 300

KILL_ZONE_START == 180

KILL_ZONE_END == 390

FVG_WINDOW_START == 150

FVG_WINDOW_END == 240

\* to_ny_time: the New York wall clock of a (naive, hence UTC) timestamp
to_ny_time(dt) == dt - NY_UTC_OFFSET_MIN

\* datetime.time(): minutes since midnight
TimeOfDay(dt) == dt % MinutesPerDay

\* datetime.date(): day number
DateOf(dt) == dt \div MinutesPerDay

is_in_kill_zone(dt) ==
    LET current_time == TimeOfDay(to_ny_time(dt))
    IN  KILL_ZONE_START <= current_time /\ current_time <= KILL_ZONE_END

is_in_fvg_window(dt) ==
    LET current_time == TimeOfDay(to_ny_time(dt))
    IN  FVG_WINDOW_START <= current_time /\ current_time <= FVG_WINDOW_END

\* A datetime object: its wall-clock reading in minutes since the epoch
\* midnight, and its tzinfo ("none" for a naive datetime)
Datetime(wall, tz) == [wall |-> wall, tzinfo |-> tz]

\* Minutes the wall clock of a zone is ahead of UTC
UtcOffset(tz) == IF tz = "NY" THEN -NY_UTC_OFFSET_MIN ELSE 0

\* to_ny_time on a datetime object: a naive one is taken as UTC
to_ny_time_of(dt) ==
    LET aware == IF dt.tzinfo = "none" THEN Datetime(dt.wall, "UTC") ELSE dt
    IN  Datetime(aware.wall - UtcOffset(aware.tzinfo) + UtcOffset("NY"), "NY")

\* is_in_kill_zone on a datetime object
is_in_kill_zone_of(dt) ==
    LET current_time == TimeOfDay(to_ny_time_of(dt).wall)
    IN  KILL_ZONE_START <= current_time /\ current_time <= KILL_ZONE_END

\* is_in_fvg_window on a datetime object
is_in_fvg_window_of(dt) ==
    LET current_time == TimeOfDay(to_ny_time_of(dt).wall)
    IN  FVG_WINDOW_START <= current_time /\ current_time <= FVG_WINDOW_END

\* datetime.weekday() of a day number: Monday is 0, and day 0 (1 January 1970)
\* is a Thursday
Weekday(day) == (day + 3) % 7

\* is_weekday(dt): dt.weekday() < 5, on the datetime's own wall clock
is_weekday(dt) == Weekday(DateOf(dt.wall)) < 5

\* No datetime is under test, no position is open, the loop has not run
LiveIdle ==
    /\ now = Datetime(0, "none")
    /\ MAX_OPEN_TRADES = 1
    /\ open_positions = <<>>
    /\ tick = 0

----------------------------------------------------------------------------
(* indicators.py *)

\* One step of df["close"].ewm(span=period, adjust=False).mean():
\* y[t] = (1 - a) * y[t-1] + a * x[t], a = 2 / (period + 1)
EwmStep(prev, close, period) ==
    ((period - 1) * prev + 2 * close * EMA_SCALE) \div (period + 1)

\* Rows lo..hi enriched in order and appended to acc (rows 1..lo-1): the first
\* row takes its close, every later row one more step of the recurrence.  The
\* range is halved so that the evaluation stays shallow; the left half is
\* complete before the right half starts.
RECURSIVE EwmRows(_, _, _, _, _)
EwmRows(df, periods, lo, hi, acc) ==
    IF lo > hi THEN acc
    ELSE IF lo = hi
         THEN Append(acc, [df[lo] EXCEPT !.ema =
                        [p \in (DOMAIN df[lo].ema) \cup periods |->
                            IF p \notin periods THEN df[lo].ema[p]
                            ELSE IF lo = 1 THEN df[1].close * EMA_SCALE
                            ELSE EwmStep(acc[lo - 1].ema[p], df[lo].close, p)]])
    ELSE LET mid == (lo + hi) \div 2
             left == EwmRows(df, periods, lo, mid, acc)
         IN  IF Len(left) = mid THEN EwmRows(df, periods, mid + 1, hi, left) ELSE left

\* calculate_emas(df, periods): adds (or overwrites) one column per period
calculate_emas(df, periods) == EwmRows(df, periods, 1, Len(df), <<>>)

FastPeriodSet == {EMA_FAST_PERIODS[k] : k \in 1..Len(EMA_FAST_PERIODS)}

AllPeriodSet == FastPeriodSet \cup {EMA_TREND_PERIOD}

\* A stacking test that lets equal adjacent averages pass
are_emas_ordered_cfg(periods, df, direction, index) ==
    IF ~(index < Len(df) /\ index >= -Len(df)) THEN FALSE
    ELSE LET row == IF index >= 0 THEN df[index + 1] ELSE df[Len(df) + index + 1]
             ema_values == [k \in 1..Len(periods) |-> row.ema[periods[k]]]
         IN  CASE direction = "long" ->
                    \A k \in 1..(Len(ema_values) - 1) : ema_values[k] >= ema_values[k + 1]
               [] direction = "short" ->
                    \A k \in 1..(Len(ema_values) - 1) : ema_values[k] <= ema_values[k + 1]
               [] OTHER -> FALSE

\* The body of are_emas_stacked when config.EMA_FAST_PERIODS is `periods`
are_emas_stacked_cfg(periods, df, direction, index) ==
    IF ~IlocInRange(df, index) THEN FALSE
    ELSE LET row == Iloc(df, index)
             ema_values == [k \in 1..Len(periods) |-> row.ema[periods[k]]]
         IN  CASE direction = "long" ->
                    \A k \in 1..(Len(ema_values) - 1) : ~(ema_values[k] <= ema_values[k + 1])
               [] direction = "short" ->
                    \A k \in 1..(Len(ema_values) - 1) : ~(ema_values[k] >= ema_values[k + 1])
               [] OTHER -> FALSE

\* are_emas_stacked(df, direction, index)
are_emas_stacked(df, direction, index) ==
    are_emas_stacked_cfg(EMA_FAST_PERIODS, df, direction, index)

\* get_200ema_bias(df, index)
get_200ema_bias(df, index) ==
    IF ~IlocInRange(df, index) THEN "neutral"
    ELSE LET row == Iloc(df, index)
         IN  IF EMA_TREND_PERIOD \notin DOMAIN row.ema THEN "neutral"
             ELSE IF row.close * EMA_SCALE > row.ema[EMA_TREND_PERIOD] THEN "long"
             ELSE IF row.close * EMA_SCALE < row.ema[EMA_TREND_PERIOD] THEN "short"
             ELSE "neutral"

\* A doji test that rejects a body of exactly the threshold share
is_doji_strict(candle, num, den) ==
    LET body == Abs(candle.close - candle.open)
        total_range == candle.high - candle.low
    IN  total_range > 0 /\ body * den < num * total_range

\* is_doji(candle, threshold) with threshold = num / den, den > 0: the
\* quotient body / total_range is compared by cross-multiplication, the
\* comparison turning with the sign of total_range
is_doji_threshold(candle, num, den) ==
    LET body == Abs(candle.close - candle.open)
        total_range == candle.high - candle.low
    IN  IF total_range = 0 THEN FALSE
        ELSE IF total_range > 0 THEN body * den <= num * total_range
        ELSE body * den >= num * total_range

\* is_doji(candle) with the configured threshold
is_doji(candle) == is_doji_threshold(candle, DojiRatioNum, DojiRatioDen)

----------------------------------------------------------------------------
(* fvg_detector.py *)

\* A gap builder that takes the bounds of a down gap the wrong way round
FvgAtSwapped(df, k, chk) ==
    LET candle1 == df[k + 1]
        candle2 == df[k + 2]
        candle3 == df[k + 3]
    IN  IF chk /\ ~is_in_fvg_window(candle2.time) THEN <<>>
        ELSE IF candle3.low > candle1.high THEN
            <<[direction |-> "bullish", top |-> candle3.low, bottom |-> candle1.high,
               midpoint_x2 |-> candle3.low + candle1.high,
               candle1_idx |-> k, candle2_idx |-> k + 1, candle3_idx |-> k + 2,
               candle1_time |-> candle1.time,
               fvg_candle_low |-> candle2.low, fvg_candle_high |-> candle2.high]>>
        ELSE IF candle3.high < candle1.low THEN
            <<[direction |-> "bearish", top |-> candle3.high, bottom |-> candle1.low,
               midpoint_x2 |-> candle1.low + candle3.high,
               candle1_idx |-> k, candle2_idx |-> k + 1, candle3_idx |-> k + 2,
               candle1_time |-> candle1.time,
               fvg_candle_low |-> candle2.low, fvg_candle_high |-> candle2.high]>>
        ELSE <<>>

\* The FVG find_fvgs builds at position k (candles k, k+1, k+2), or <<>> when
\* that position is skipped
FvgAt(df, k, chk) ==
    LET candle1 == Row(df, k)
        candle2 == Row(df, k + 1)
        candle3 == Row(df, k + 2)
    IN  IF chk /\ ~is_in_fvg_window(candle2.time) THEN <<>>
        ELSE IF candle3.low > candle1.high THEN
            <<[direction |-> "bullish", top |-> candle3.low, bottom |-> candle1.high,
               midpoint_x2 |-> candle3.low + candle1.high,
               candle1_idx |-> k, candle2_idx |-> k + 1, candle3_idx |-> k + 2,
               candle1_time |-> candle1.time,
               fvg_candle_low |-> candle2.low, fvg_candle_high |-> candle2.high]>>
        ELSE IF candle3.high < candle1.low THEN
            <<[direction |-> "bearish", top |-> candle1.low, bottom |-> candle3.high,
               midpoint_x2 |-> candle1.low + candle3.high,
               candle1_idx |-> k, candle2_idx |-> k + 1, candle3_idx |-> k + 2,
               candle1_time |-> candle1.time,
               fvg_candle_low |-> candle2.low, fvg_candle_high |-> candle2.high]>>
        ELSE <<>>

\* A scan of positions lo..hi that lists the newest gap first
RECURSIVE FindFromNewestFirst(_, _, _, _)
FindFromNewestFirst(df, lo, hi, chk) ==
    IF lo > hi THEN <<>>
    ELSE IF lo = hi THEN FvgAt(df, lo, chk)
    ELSE LET mid == (lo + hi) \div 2
         IN  FindFromNewestFirst(df, mid + 1, hi, chk) \o FindFromNewestFirst(df, lo, mid, chk)

\* `for i in range(len(df) - 2)` over positions lo..hi: the FVGs in order of
\* formation
RECURSIVE FindFrom(_, _, _, _)
FindFrom(df, lo, hi, chk) ==
    IF lo > hi THEN <<>>
    ELSE IF lo = hi THEN FvgAt(df, lo, chk)
    ELSE LET mid == (lo + hi) \div 2
         IN  FindFrom(df, lo, mid, chk) \o FindFrom(df, mid + 1, hi, chk)

\* find_fvgs(df, check_time)
find_fvgs(df, chk) ==
    IF Len(df) < 3 THEN <<>> ELSE FindFrom(df, 0, Len(df) - 3, chk)

----------------------------------------------------------------------------
(* trident_pattern.py *)

\* validate_trident_pattern's None
NoSignal == [direction |-> "NONE"]

\* symbol.upper() in ["XAUUSD", "GOLD"]
IsGold(sym) == sym \in {"XAUUSD", "GOLD"}

\* A signal that asks for the hard stop on every symbol
TradeSignalAlwaysHard(df, sym, direction, fvg, gold_hard) ==
    [symbol |-> sym,
     direction |-> direction,
     entry_price |-> df[fvg.candle3_idx + 3].close,
     stop_loss |-> IF direction = "BUY" THEN fvg.fvg_candle_low ELSE fvg.fvg_candle_high,
     fvg |-> fvg,
     doji_idx |-> fvg.candle3_idx + 1,
     confirmation_idx |-> fvg.candle3_idx + 2,
     signal_time |-> df[fvg.candle3_idx + 3].time,
     use_hard_sl |-> TRUE]

\* The TradeSignal both branches build
TradeSignal(df, sym, direction, fvg, gold_hard) ==
    LET confirm_idx == fvg.candle3_idx + 2
        confirm_candle == Row(df, confirm_idx)
        is_gold == IsGold(sym)
    IN  [symbol |-> sym,
         direction |-> direction,
         entry_price |-> confirm_candle.close,
         stop_loss |-> IF direction = "BUY" THEN fvg.fvg_candle_low ELSE fvg.fvg_candle_high,
         fvg |-> fvg,
         doji_idx |-> fvg.candle3_idx + 1,
         confirmation_idx |-> confirm_idx,
         signal_time |-> confirm_candle.time,
         use_hard_sl |-> (~is_gold \/ gold_hard)]

\* Step 2 of the bullish branch: `if doji_candle["low"] > fvg.midpoint: continue`
BullishWickTooShallow(doji_candle, fvg) == 2 * doji_candle.low > fvg.midpoint_x2

\* A confirmation check that also rejects a close equal to the doji's high
BullishConfirmBrokeStrict(confirm_candle, doji_candle) ==
    confirm_candle.close >= doji_candle.high

\* Step 3 of the bullish branch: `if confirm_candle["close"] > doji_candle["high"]: continue`
\* (the block before it ends in `pass` and changes nothing)
BullishConfirmBroke(confirm_candle, doji_candle) == confirm_candle.close > doji_candle.high

\* bearish branch: `if doji_candle["high"] < fvg.midpoint: continue`
BearishWickTooShallow(doji_candle, fvg) == 2 * doji_candle.high < fvg.midpoint_x2

\* bearish branch: `if confirm_candle["close"] < doji_candle["low"]: continue`
BearishConfirmBroke(confirm_candle, doji_candle) == confirm_candle.close < doji_candle.low

\* The body of the `for fvg in reversed(fvgs)` loop: the signal it returns, or
\* NoSignal where it reaches a `continue`
CheckFvg(df, sym, chk, gold_hard, fvg) ==
    LET doji_idx == fvg.candle3_idx + 1
        confirm_idx == fvg.candle3_idx + 2
    IN  IF confirm_idx >= Len(df) THEN NoSignal
        ELSE
        LET doji_candle == Row(df, doji_idx)
            confirm_candle == Row(df, confirm_idx)
        IN  IF ~is_doji(doji_candle) THEN NoSignal
            ELSE IF fvg.direction = "bullish" THEN
                IF BullishWickTooShallow(doji_candle, fvg) THEN NoSignal
                ELSE IF BullishConfirmBroke(confirm_candle, doji_candle) THEN NoSignal
                ELSE IF ~are_emas_stacked(df, "long", confirm_idx) THEN NoSignal
                ELSE IF get_200ema_bias(df, confirm_idx) # "long" THEN NoSignal
                ELSE IF chk /\ ~is_in_kill_zone(confirm_candle.time) THEN NoSignal
                ELSE TradeSignal(df, sym, "BUY", fvg, gold_hard)
            ELSE IF fvg.direction = "bearish" THEN
                IF BearishWickTooShallow(doji_candle, fvg) THEN NoSignal
                ELSE IF BearishConfirmBroke(confirm_candle, doji_candle) THEN NoSignal
                ELSE IF ~are_emas_stacked(df, "short", confirm_idx) THEN NoSignal
                ELSE IF get_200ema_bias(df, confirm_idx) # "short" THEN NoSignal
                ELSE IF chk /\ ~is_in_kill_zone(confirm_candle.time) THEN NoSignal
                ELSE TradeSignal(df, sym, "SELL", fvg, gold_hard)
            ELSE NoSignal

\* A scan in order of formation, oldest gap first
RECURSIVE ScanForwardFrom(_, _, _, _, _, _)
ScanForwardFrom(df, sym, chk, gold_hard, fvgs, j) ==
    IF j > Len(fvgs) THEN NoSignal
    ELSE LET s == CheckFvg(df, sym, chk, gold_hard, fvgs[j])
         IN  IF s # NoSignal THEN s
             ELSE ScanForwardFrom(df, sym, chk, gold_hard, fvgs, j + 1)

ScanOldestFirst(df, sym, chk, gold_hard, fvgs, k) ==
    ScanForwardFrom(df, sym, chk, gold_hard, fvgs, 1)

\* `for fvg in reversed(fvgs)`: position k of fvgs, then k-1, ... ; the first
\* signal built is returned
RECURSIVE ScanReversed(_, _, _, _, _, _)
ScanReversed(df, sym, chk, gold_hard, fvgs, k) ==
    IF k < 1 THEN NoSignal
    ELSE LET s == CheckFvg(df, sym, chk, gold_hard, fvgs[k])
         IN  IF s # NoSignal THEN s
             ELSE ScanReversed(df, sym, chk, gold_hard, fvgs, k - 1)

\* A validation without the minimum length
validate_any_length(df, sym, chk, gold_hard) ==
    LET fvgs == find_fvgs(df, chk)
    IN  IF fvgs = <<>> THEN NoSignal
        ELSE ScanReversed(df, sym, chk, gold_hard, fvgs, Len(fvgs))

\* validate_trident_pattern(df, symbol, check_time)
validate_trident_pattern(df, sym, chk, gold_hard) ==
    IF Len(df) < 6 THEN NoSignal
    ELSE LET fvgs == find_fvgs(df, chk)
         IN  IF fvgs = <<>> THEN NoSignal
             ELSE ScanReversed(df, sym, chk, gold_hard, fvgs, Len(fvgs))

\* scan_for_signals
scan_for_signals(df, sym, chk, gold_hard) == validate_trident_pattern(df, sym, chk, gold_hard)

----------------------------------------------------------------------------
(* backtest.py: simulate_trade_exit *)

\* P&L is kept in thousandths of a pip
PIP_SCALE == 1000

\* `max_bars = min(len(df_30m), entry_bar_idx + 960)`
MAX_HOLD_BARS == 960

\* `(i - entry_bar_idx) % 48 == 0`
DAILY_CHECK_BARS == 48

\* `if len(daily_up_to) >= 5`
MIN_DAILY_BARS == 5

\* exit_time: Optional[datetime] = None
NoTime == -1

\* get_pip_value(symbol), in units of a price grid of 0.0001: 0.01 where the
\* name contains JPY, 0.1 where it contains XAU or GOLD, 0.0001 otherwise (the
\* substring tests, over the symbols the specifications use)
get_pip_value(sym) ==
    IF sym \in {"USDJPY"} THEN 100
    ELSE IF sym \in {"XAUUSD", "GOLD"} THEN 1000
    ELSE 1

\* A profit computed as for a long position whatever the direction
PnlPipsLongOnly(direction, entry_price, exit_price, pip_value) ==
    ((exit_price - entry_price) * PIP_SCALE) \div pip_value

\* (exit_price - entry_price) / pip_value for BUY, (entry_price - exit_price) / pip_value
\* otherwise, in thousandths of a pip
PnlPips(direction, entry_price, exit_price, pip_value) ==
    IF direction = "BUY" THEN ((exit_price - entry_price) * PIP_SCALE) \div pip_value
    ELSE ((entry_price - exit_price) * PIP_SCALE) \div pip_value

\* BacktestTrade(symbol, direction, entry_price, entry_time, stop_loss)
BacktestTrade(sym, direction, entry_price, entry_time, stop_loss) ==
    [symbol |-> sym, direction |-> direction, entry_price |-> entry_price,
     entry_time |-> entry_time, stop_loss |-> stop_loss,
     exit_price |-> 0, exit_time |-> NoTime, pnl_pips |-> 0,
     rr_ratio |-> [num |-> 0, den |-> 1], result |-> "OPEN", exit_reason |-> ""]

\* No trade is open
NoTrade == BacktestTrade("", "NONE", 0, NoTime, 0)

\* A rational value num/den, den > 0
Frac(n, d) == [num |-> n, den |-> d]

\* BacktestResult(symbol=symbol): the dataclass defaults
BacktestResult(sym) ==
    [symbol |-> sym, total_trades |-> 0, wins |-> 0, losses |-> 0,
     win_rate |-> Frac(0, 1), total_pnl_pips |-> 0, avg_rr |-> Frac(0, 1),
     max_drawdown_pips |-> 0, best_trade_pips |-> 0, worst_trade_pips |-> 0,
     trades |-> <<>>]

\* The five assignments every exit makes
CloseTrade(tr, exit_price, exit_time, pip_value, outcome, reason) ==
    [tr EXCEPT !.exit_price = exit_price,
               !.exit_time = exit_time,
               !.pnl_pips = PnlPips(tr.direction, tr.entry_price, exit_price, pip_value),
               !.result = outcome,
               !.exit_reason = reason]

\* "WIN" if trade.pnl_pips > 0 else "LOSS"
ResultOfPnl(tr, exit_price, pip_value) ==
    IF PnlPips(tr.direction, tr.entry_price, exit_price, pip_value) > 0 THEN "WIN" ELSE "LOSS"

\* A loop bound without the horizon: the horizon is dropped, the loop runs to the end of the data
MaxBarsNoHorizon(df, entry) == Len(df)

\* `max_bars = min(len(df_30m), entry_bar_idx + 960)`
MaxBars(df, entry) == Min(Len(df), entry + MAX_HOLD_BARS)

\* A stop test without the gold branch: the hard stop test is applied to every instrument
StopHitHardOnly(tr, candle) ==
    IF tr.direction = "BUY" THEN candle.low <= tr.stop_loss
    ELSE IF tr.direction = "SELL" THEN candle.high >= tr.stop_loss
    ELSE FALSE

\* The stop test of one bar: hard stop on low/high, or the close filter for gold
StopHit(tr, candle) ==
    LET is_gold == IsGold(tr.symbol)
    IN  IF tr.direction = "BUY" THEN
            IF ~is_gold THEN candle.low <= tr.stop_loss
            ELSE candle.close <= tr.stop_loss
        ELSE IF tr.direction = "SELL" THEN
            IF ~is_gold THEN candle.high >= tr.stop_loss
            ELSE candle.close >= tr.stop_loss
        ELSE FALSE

\* The trade as the stop branch leaves it
StopExit(tr, candle, pip_value) ==
    IF ~IsGold(tr.symbol)
    THEN CloseTrade(tr, tr.stop_loss, candle.time, pip_value, "LOSS", "Stop loss hit")
    ELSE CloseTrade(tr, candle.close, candle.time, pip_value, "LOSS", "Gold candle close filter")

\* `df_daily[df_daily["time"].dt.date <= candle_date]`
DailyUpTo(daily, candle_date) ==
    LET keep(r) == DateOf(r.time) <= candle_date
    IN  SelectSeq(daily, keep)

\* A daily interval on absolute positions: the interval is counted from the start of the table
DailyCheckDueAbs(daily, entry, idx) ==
    idx % DAILY_CHECK_BARS = 0 /\ Len(daily) # 0

\* Whether the daily block is entered at loop position idx
DailyCheckDue(daily, entry, idx) ==
    (idx - entry) % DAILY_CHECK_BARS = 0 /\ Len(daily) # 0

\* A verdict given on any number of daily bars
DailyUnstackNoMinimum(tr, daily_up_to) ==
    LET daily_subset == calculate_emas(daily_up_to, FastPeriodSet)
        dir == IF tr.direction = "BUY" THEN "long"
               ELSE IF tr.direction = "SELL" THEN "short" ELSE "none"
    IN  /\ dir # "none"
        /\ ~are_emas_stacked(daily_subset, dir, -1)
        /\ are_emas_stacked(daily_subset, dir, -2)

\* The daily block's verdict on daily_up_to: stacking lost between rows -2 and -1
DailyUnstack(tr, daily_up_to) ==
    IF Len(daily_up_to) >= MIN_DAILY_BARS THEN
        LET daily_subset == calculate_emas(daily_up_to, FastPeriodSet)
            dir == IF tr.direction = "BUY" THEN "long"
                   ELSE IF tr.direction = "SELL" THEN "short" ELSE "none"
        IN  /\ dir # "none"
            /\ ~are_emas_stacked(daily_subset, dir, -1)
            /\ are_emas_stacked(daily_subset, dir, -2)
    ELSE FALSE

\* A loop pass in the other order: the daily block is tried before the stop test
SimIterDailyFirst(df, daily, tr, entry, pip_value, idx) ==
    LET candle == Row(df, idx)
    IN  IF DailyCheckDue(daily, entry, idx)
           /\ DailyUnstack(tr, DailyUpTo(daily, DateOf(candle.time))) THEN
            [done |-> TRUE,
             trade |-> CloseTrade(tr, candle.close, candle.time, pip_value,
                                  ResultOfPnl(tr, candle.close, pip_value),
                                  "Daily EMA unstack")]
        ELSE IF StopHit(tr, candle) THEN
            [done |-> TRUE, trade |-> StopExit(tr, candle, pip_value)]
        ELSE [done |-> FALSE, trade |-> tr]

\* One pass of `for i in range(entry_bar_idx + 1, max_bars)`:
\* [done |-> the pass returned, trade |-> the trade after it]
SimIter(df, daily, tr, entry, pip_value, idx) ==
    LET candle == Row(df, idx)
    IN  IF StopHit(tr, candle) THEN
            [done |-> TRUE, trade |-> StopExit(tr, candle, pip_value)]
        ELSE IF DailyCheckDue(daily, entry, idx)
                /\ DailyUnstack(tr, DailyUpTo(daily, DateOf(candle.time))) THEN
            [done |-> TRUE,
             trade |-> CloseTrade(tr, candle.close, candle.time, pip_value,
                                  ResultOfPnl(tr, candle.close, pip_value),
                                  "Daily EMA unstack")]
        ELSE [done |-> FALSE, trade |-> tr]

\* A forced close that ignores the horizon: always the last row of the table
SimMaxHoldLastRow(df, tr, entry, pip_value) ==
    LET last_candle == Iloc(df, -1)
    IN  CloseTrade(tr, last_candle.close, last_candle.time, pip_value,
                   ResultOfPnl(tr, last_candle.close, pip_value), "Max hold period")

\* "Max hold reached — close at last candle"
SimMaxHold(df, tr, entry, pip_value) ==
    LET max_bars == MaxBars(df, entry)
        last_candle == IF max_bars < Len(df) THEN Row(df, max_bars - 1) ELSE Iloc(df, -1)
    IN  CloseTrade(tr, last_candle.close, last_candle.time, pip_value,
                   ResultOfPnl(tr, last_candle.close, pip_value), "Max hold period")

\* The passes of `for i in range(entry_bar_idx + 1, max_bars)` at positions
\* lo..hi, in order, up to the first pass that returns
RECURSIVE SimFrom(_, _, _, _, _, _, _)
SimFrom(df, daily, tr, entry, pip_value, lo, hi) ==
    IF lo > hi THEN [done |-> FALSE, trade |-> tr]
    ELSE IF lo = hi THEN SimIter(df, daily, tr, entry, pip_value, lo)
    ELSE LET mid == (lo + hi) \div 2
             left == SimFrom(df, daily, tr, entry, pip_value, lo, mid)
         IN  IF left.done THEN left
             ELSE SimFrom(df, daily, tr, entry, pip_value, mid + 1, hi)

\* simulate_trade_exit(df_30m, df_daily, trade, entry_bar_idx, pip_value)
simulate_trade_exit(df, daily, tr, entry, pip_value) ==
    LET r == SimFrom(df, daily, tr, entry, pip_value, entry + 1, MaxBars(df, entry) - 1)
    IN  IF r.done THEN r.trade ELSE SimMaxHold(df, tr, entry, pip_value)

----------------------------------------------------------------------------
(* backtest.py: backtest_symbol *)

\* window_size = 50
WINDOW_SIZE == 50

\* The step of the window loop, window_size // 2
WINDOW_STEP == WINDOW_SIZE \div 2

\* `if start_idx - last_trade_idx < 10: continue`
COOLDOWN_BARS == 10

\* df_30m.iloc[start_idx:start_idx + window_size].copy().reset_index(drop=True)
Window(df, start) ==
    SubSeq(df, start + 1, Min(Len(df), start + WINDOW_SIZE))

\* entry_key = (str(signal.signal_time), signal.entry_price, signal.direction)
EntryKey(sig) == <<sig.signal_time, sig.entry_price, sig.direction>>

\* A membership test that never finds the key
NeverSeen(seen, entry_key) == FALSE

\* `entry_key in seen_entry_times`
AlreadySeen(seen, entry_key) == entry_key \in seen

\* risk = abs(entry - stop); rr_ratio = pnl_pips * pip_value / risk if risk > 0 else 0.0
RiskReward(tr, pip_value) ==
    LET risk == Abs(tr.entry_price - tr.stop_loss)
    IN  IF risk > 0 THEN Frac(tr.pnl_pips * pip_value, PIP_SCALE * risk)
        ELSE Frac(0, 1)

\* The body of the window loop for one start_idx: the values it leaves behind
WindowPass(df, daily, sym, gold_hard, start, seen, last_idx, res) ==
    LET keep == [skipped |-> FALSE, sig |-> NoSignal, seen |-> seen, last_idx |-> last_idx,
                 res |-> res, discarded |-> FALSE, traded |-> FALSE,
                 trade |-> NoTrade, entry |-> 0]
    IN  IF start - last_idx < COOLDOWN_BARS THEN [keep EXCEPT !.skipped = TRUE]
        ELSE
        LET window == Window(df, start)
            sig == validate_trident_pattern(window, sym, TRUE, gold_hard)
        IN  IF sig = NoSignal THEN keep
            ELSE IF AlreadySeen(seen, EntryKey(sig))
                 THEN [keep EXCEPT !.sig = sig, !.discarded = TRUE]
            ELSE
            LET pip_value == get_pip_value(sym)
                actual_confirm_idx == start + sig.confirmation_idx
                opened == BacktestTrade(sym, sig.direction, sig.entry_price,
                                        sig.signal_time, sig.stop_loss)
                closed == simulate_trade_exit(df, daily, opened, actual_confirm_idx, pip_value)
                rated == [closed EXCEPT !.rr_ratio = RiskReward(closed, pip_value)]
            IN  [skipped |-> FALSE, sig |-> sig, seen |-> seen \cup {EntryKey(sig)},
                 last_idx |-> start,
                 res |-> [res EXCEPT !.trades = Append(@, rated)],
                 discarded |-> FALSE, traded |-> TRUE,
                 trade |-> rated, entry |-> actual_confirm_idx]

RECURSIVE GCD(_, _)
GCD(a, b) == IF b = 0 THEN a ELSE GCD(b, a % b)

\* The same rational in lowest terms
Reduced(f) ==
    LET g == GCD(Abs(f.num), f.den)
    IN  Frac(f.num \div g, f.den \div g)

FracAdd(a, b) == Reduced(Frac(a.num * b.den + b.num * a.den, a.den * b.den))

RECURSIVE SumPnl(_, _)
SumPnl(ts, k) == IF k = 0 THEN 0 ELSE SumPnl(ts, k - 1) + ts[k].pnl_pips

RECURSIVE SumRR(_, _)
SumRR(ts, k) ==
    IF k = 0 THEN Frac(0, 1) ELSE FracAdd(SumRR(ts, k - 1), Reduced(ts[k].rr_ratio))

\* A running peak that starts from a flat account: 0 counts as a peak before
\* the first trade
RunningMaxFromZero(ts, k) ==
    LET cums == { SumPnl(ts, j) : j \in 0..k }
    IN  CHOOSE m \in cums : \A c \in cums : c <= m

\* np.maximum.accumulate(np.cumsum(pnl_values))[k-1]
RunningMax(ts, k) ==
    LET cums == { SumPnl(ts, j) : j \in 1..k }
    IN  CHOOSE m \in cums : \A c \in cums : c <= m

\* A win rate kept as a fraction of 1 instead of a percentage
WinRateAsFraction(wins, n) == IF n > 0 THEN Frac(wins, n) ELSE Frac(0, 1)

\* (result.wins / result.total_trades * 100) if result.total_trades > 0 else 0
WinRate(wins, n) == IF n > 0 THEN Frac(wins * 100, n) ELSE Frac(0, 1)

\* The summary block at the end of backtest_symbol
Summary(res) ==
    LET ts == res.trades
        n == Len(ts)
        wins == Cardinality({ k \in 1..n : ts[k].result = "WIN" })
        losses == Cardinality({ k \in 1..n : ts[k].result = "LOSS" })
        rated == SelectSeq(ts, LAMBDA t : t.rr_ratio.num # 0)
        rr_sum == SumRR(rated, Len(rated))
        pnls == { ts[k].pnl_pips : k \in 1..n }
        drawdowns == { RunningMax(ts, k) - SumPnl(ts, k) : k \in 1..n }
    IN  [res EXCEPT
            !.total_trades = n,
            !.wins = wins,
            !.losses = losses,
            !.win_rate = WinRate(wins, n),
            !.total_pnl_pips = SumPnl(ts, n),
            !.avg_rr = IF Len(rated) > 0 THEN Frac(rr_sum.num, rr_sum.den * Len(rated))
                       ELSE Frac(0, 1),
            !.best_trade_pips = IF n > 0 THEN CHOOSE m \in pnls : \A x \in pnls : x <= m ELSE 0,
            !.worst_trade_pips = IF n > 0 THEN CHOOSE m \in pnls : \A x \in pnls : m <= x ELSE 0,
            !.max_drawdown_pips =
                IF n > 0 THEN CHOOSE m \in drawdowns : \A x \in drawdowns : x <= m ELSE @]

----------------------------------------------------------------------------
(* Input tables *)

\* Minutes between two 30M candles
BAR_MINUTES == 30

\* A candle shape: open, high, low, close
Shape(o, h, l, c) == [open |-> o, high |-> h, low |-> l, close |-> c]

\* A table row as mt5_connector.get_candles builds it (no indicator column yet)
MakeRow(t, s) ==
    [time |-> t, open |-> s.open, high |-> s.high, low |-> s.low, close |-> s.close,
     ema |-> <<>>]

\* A table of consecutive 30M candles starting at time t0, from a sequence of shapes
MakeTable(t0, shapes) ==
    [k \in 1..Len(shapes) |-> MakeRow(t0 + BAR_MINUTES * (k - 1), shapes[k])]

\* A table of consecutive daily candles starting at day first_day, from closes
MakeDaily(first_day, closes) ==
    [k \in 1..Len(closes) |->
        MakeRow(MinutesPerDay * (first_day + k - 1), Shape(closes[k], closes[k], closes[k], closes[k]))]

NoHist == [examined |-> 0, last_examined |-> -1, daily_evals |-> {}, exit_idx |-> -1,
           scanned |-> {}, discarded |-> 0, returned |-> <<>>, orders |-> <<>>]

----------------------------------------------------------------------------
(* Specification SpecSim: simulate_trade_exit on its own, one loop pass per step *)

\* Bars available beyond the horizon in the long tables
ExtraBars == 2

\* First intraday candle: day 10, 00:00 UTC
SimT0 == 10 * MinutesPerDay

Quiet == Shape(3, 3, 3, 3)
WickDown == Shape(3, 3, 1, 3)
CloseDown == Shape(3, 3, 1, 1)
WickUp == Shape(3, 5, 3, 3)
CloseUp == Shape(3, 5, 3, 5)
WickBoth == Shape(3, 5, 1, 3)

SimEntryPrice == Quiet.close

StopLevels == {2, 3, 4}

SimSymbols == {"EURUSD", "XAUUSD"}

SimEntrySet == {0, 3}

\* Daily close series: none, too short, stacked then broken, stacking kept
DailySeriesSet ==
    { <<>>, <<5, 9, 1>>, <<5, 1, 9>>,
      <<1, 5, 1, 1, 1>>, <<5, 1, 1, 1, 9>>, <<1, 5, 9, 9, 9>>, <<9, 5, 1, 1, 1>>,
      <<1, 1, 5, 1, 1, 1>>, <<5, 5, 1, 1, 1, 9>> }

DailyFirstDays == {7, 8}

\* The intraday table of a scenario: `after` bars follow the entry bar; the bars
\* at offsets 1 and 48 from the entry, the last bar within the horizon and the
\* bars beyond the horizon have the shapes given, every other bar is Quiet
SimTable(entry, after, s1, s48, slast, stail) ==
    LET lastoff == Min(after, MAX_HOLD_BARS - 1)
        shapeAt(off) ==
            IF off >= MAX_HOLD_BARS THEN stail
            ELSE IF off = lastoff /\ off >= 1 THEN slast
            ELSE IF off = 1 THEN s1
            ELSE IF off = DAILY_CHECK_BARS THEN s48
            ELSE Quiet
    IN  MakeTable(SimT0, [k \in 1..(entry + 1 + after) |-> shapeAt(k - 1 - entry)])

SimStart(entry, table, daily, sym, dir, stop) ==
    /\ pc = "sim"
    /\ symbol = sym
    /\ check_time = TRUE
    /\ GOLD_USE_HARD_SL = FALSE
    /\ df_30m = table
    /\ df_daily = daily
    /\ signal = NoSignal
    /\ trade = BacktestTrade(sym, dir, SimEntryPrice, Row(table, entry).time, stop)
    /\ entry_bar_idx = entry
    /\ i = entry + 1
    /\ start_idx = 0
    /\ seen_entry_times = {}
    /\ last_trade_idx = 0
    /\ result = BacktestResult(sym)
    /\ LiveIdle
    /\ hist = NoHist

\* Short tables, no daily data: every stop level, every shape around the entry
InitSimStops ==
    \E entry \in SimEntrySet, after \in {0, 1, 2, 49},
       s1 \in {Quiet, WickDown, CloseDown, WickUp, CloseUp},
       s48 \in {Quiet, WickBoth}, slast \in {Quiet, CloseDown, CloseUp},
       sym \in SimSymbols, dir \in {"BUY", "SELL"}, stop \in StopLevels :
        SimStart(entry, SimTable(entry, after, s1, s48, slast, Quiet), <<>>, sym, dir, stop)

\* Tables of two days, with daily data: the stop on the losing side
InitSimDaily ==
    \E after \in {49, 97}, s48 \in {Quiet, WickBoth, CloseDown, CloseUp},
       closes \in DailySeriesSet, first_day \in DailyFirstDays,
       sym \in SimSymbols, dir \in {"BUY", "SELL"} :
        SimStart(3, SimTable(3, after, Quiet, s48, Quiet, Quiet),
                 MakeDaily(first_day, closes), sym, dir,
                 IF dir = "BUY" THEN 2 ELSE 4)

\* Tables that reach the horizon
InitSimLong ==
    \E extra \in 0..ExtraBars, slast \in {Quiet, CloseDown, CloseUp},
       closes \in {<<>>, <<1, 5, 1, 1, 1>>},
       sym \in SimSymbols, dir \in {"BUY", "SELL"} :
        SimStart(3,
                 SimTable(3, MAX_HOLD_BARS - 2 + extra, Quiet, Quiet, slast, WickBoth),
                 MakeDaily(7, closes), sym, dir, IF dir = "BUY" THEN 2 ELSE 4)

InitSim == InitSimStops \/ InitSimDaily \/ InitSimLong

\* One pass of the `for i in range(entry_bar_idx + 1, max_bars)` loop
SimStep ==
    /\ pc = "sim"
    /\ i < MaxBars(df_30m, entry_bar_idx)
    /\ LET r == SimIter(df_30m, df_daily, trade, entry_bar_idx, get_pip_value(trade.symbol), i)
           evaluated == ~StopHit(trade, Row(df_30m, i)) /\ DailyCheckDue(df_daily, entry_bar_idx, i)
       IN  /\ trade' = r.trade
           /\ pc' = IF r.done THEN "done" ELSE "sim"
           /\ i' = IF r.done THEN i ELSE i + 1
           /\ hist' = [hist EXCEPT !.examined = @ + 1,
                                   !.last_examined = i,
                                   !.daily_evals = IF evaluated THEN @ \cup {i} ELSE @,
                                   !.exit_idx = IF r.done THEN i ELSE @]
    /\ UNCHANGED <<symbol, check_time, GOLD_USE_HARD_SL, df_30m, df_daily, signal,
                   entry_bar_idx, start_idx, seen_entry_times, last_trade_idx, result, live>>

\* The loop is exhausted: the code after it
SimForceClose ==
    /\ pc = "sim"
    /\ i >= MaxBars(df_30m, entry_bar_idx)
    /\ trade' = SimMaxHold(df_30m, trade, entry_bar_idx, get_pip_value(trade.symbol))
    /\ pc' = "done"
    /\ UNCHANGED <<symbol, check_time, GOLD_USE_HARD_SL, df_30m, df_daily, signal,
                   entry_bar_idx, i, start_idx, seen_entry_times, last_trade_idx, result, hist, live>>

NextSim == SimStep \/ SimForceClose

SpecSim == InitSim /\ [][NextSim]_vars

----------------------------------------------------------------------------
(* Properties of simulate_trade_exit (SpecSim) *)

\* The last bar the loop may examine: min(len - 1, entry + 959)
LastBar == Min(Len(df_30m) - 1, entry_bar_idx + MAX_HOLD_BARS - 1)

\* exit - entry for a long, entry - exit for a short, in grid units
Gain(tr) ==
    IF tr.direction = "BUY" THEN tr.exit_price - tr.entry_price
    ELSE tr.entry_price - tr.exit_price

OutcomeOfGain(tr) == IF Gain(tr) > 0 THEN "WIN" ELSE "LOSS"

\* C1: the forward simulation examines only bars entry+1 .. min(len-1, entry+959),
\* always has a next step until it returns, and returns with outcome WIN or LOSS
C1_TerminatesWinOrLoss ==
    /\ hist.examined <= MAX_HOLD_BARS - 1
    /\ hist.examined > 0 =>
          /\ hist.last_examined >= entry_bar_idx + 1
          /\ hist.last_examined <= entry_bar_idx + MAX_HOLD_BARS - 1
          /\ hist.last_examined <= Len(df_30m) - 1
          /\ hist.last_examined = entry_bar_idx + hist.examined
    /\ pc = "sim" => trade.result = "OPEN" /\ ENABLED NextSim
    /\ pc = "done" => trade.result \in {"WIN", "LOSS"}

\* C1 witness: a run that used the whole horizon with data left beyond it
C1_Witness ==
    /\ pc = "done"
    /\ hist.examined = MAX_HOLD_BARS - 1
    /\ Len(df_30m) > entry_bar_idx + MAX_HOLD_BARS

\* C9: with no stop or trend-unstack exit, the trade is closed at the close of bar
\* min(len-1, entry+959) (the entry bar itself when it is the last bar), WIN iff
\* the signed P&L is positive, reason 'Max hold period'
C9_MaxHoldClose ==
    pc = "done" =>
        /\ (hist.exit_idx = -1) <=> (trade.exit_reason = "Max hold period")
        /\ trade.exit_reason = "Max hold period" =>
              /\ hist.last_examined = (IF LastBar > entry_bar_idx THEN LastBar ELSE -1)
              /\ trade.exit_price = Row(df_30m, LastBar).close
              /\ trade.exit_time = Row(df_30m, LastBar).time
              /\ trade.result = OutcomeOfGain(trade)

\* C9 witness: the horizon ends before the data does, and the forced close wins
C9_Witness ==
    /\ pc = "done"
    /\ trade.exit_reason = "Max hold period"
    /\ Len(df_30m) > entry_bar_idx + MAX_HOLD_BARS
    /\ trade.result = "WIN"

\* Bars within the horizon at which the hard stop test is met
HardStopBars ==
    {k \in (entry_bar_idx + 1)..LastBar :
        IF trade.direction = "BUY" THEN Row(df_30m, k).low <= trade.stop_loss
        ELSE Row(df_30m, k).high >= trade.stop_loss}

\* Bars within the horizon whose close is at or beyond the stop
CloseStopBars ==
    {k \in (entry_bar_idx + 1)..LastBar :
        IF trade.direction = "BUY" THEN Row(df_30m, k).close <= trade.stop_loss
        ELSE Row(df_30m, k).close >= trade.stop_loss}

\* Bars whose wick pierces the stop while the close does not cross it
WickOnlyBars == HardStopBars \ CloseStopBars

First(S) == CHOOSE k \in S : \A m \in S : k <= m

\* Stacking in the trade direction held on the previous daily bar and not on the
\* current one, among the daily bars dated on or before bar k
UnstackAt(k) ==
    LET upto == DailyUpTo(df_daily, DateOf(Row(df_30m, k).time))
        e == calculate_emas(upto, FastPeriodSet)
        dir == IF trade.direction = "BUY" THEN "long" ELSE "short"
    IN  are_emas_stacked(e, dir, -2) /\ ~are_emas_stacked(e, dir, -1)

DailyBarsAt(k) == Len(DailyUpTo(df_daily, DateOf(Row(df_30m, k).time)))

\* C6: for a non-wick-prone instrument the trade exits at the first bar whose low
\* (long) or high (short) reaches the stop, at the stop price with outcome LOSS,
\* unless an exit fired on an earlier bar; on that bar the stop exit wins over the
\* trend-unstack exit
C6_HardStopFirst ==
    (pc = "done" /\ ~IsGold(trade.symbol)) =>
        /\ trade.exit_reason # "Gold candle close filter"
        /\ HardStopBars # {} =>
              /\ hist.exit_idx # -1
              /\ hist.exit_idx <= First(HardStopBars)
              /\ hist.exit_idx = First(HardStopBars) =>
                    /\ trade.exit_reason = "Stop loss hit"
                    /\ trade.exit_price = trade.stop_loss
                    /\ trade.exit_time = Row(df_30m, hist.exit_idx).time
                    /\ trade.result = "LOSS"
        /\ trade.exit_reason = "Stop loss hit" =>
              HardStopBars # {} /\ hist.exit_idx = First(HardStopBars)

\* C6 witness: the stop exit taken on a bar where the trend-unstack condition
\* holds as well
C6_Witness ==
    /\ pc = "done"
    /\ ~IsGold(trade.symbol)
    /\ trade.exit_reason = "Stop loss hit"
    /\ (hist.exit_idx - entry_bar_idx) % DAILY_CHECK_BARS = 0
    /\ DailyBarsAt(hist.exit_idx) >= MIN_DAILY_BARS
    /\ UnstackAt(hist.exit_idx)

C8_Original ==
    pc = "done" =>
        \A k \in hist.daily_evals :
            (hist.exit_idx = k /\ trade.exit_reason = "Daily EMA unstack") <=> UnstackAt(k)

\* C8 amended: the daily check is reached only at offsets from the entry bar that
\* are positive multiples of 48; reached with at least 5 daily bars dated on or
\* before the bar, it fires exactly when stacking held on the previous daily bar
\* and not on the current one; reached with fewer, it never fires; when it fires
\* the trade exits at the bar's close, WIN iff the signed P&L is positive
C8_UnstackExit ==
    /\ \A k \in hist.daily_evals :
          k > entry_bar_idx /\ (k - entry_bar_idx) % DAILY_CHECK_BARS = 0
    /\ pc = "done" =>
          /\ \A k \in hist.daily_evals :
                (hist.exit_idx = k /\ trade.exit_reason = "Daily EMA unstack")
                    <=> (DailyBarsAt(k) >= MIN_DAILY_BARS /\ UnstackAt(k))
          /\ trade.exit_reason = "Daily EMA unstack" =>
                /\ hist.exit_idx \in hist.daily_evals
                /\ trade.exit_price = Row(df_30m, hist.exit_idx).close
                /\ trade.exit_time = Row(df_30m, hist.exit_idx).time
                /\ trade.result = OutcomeOfGain(trade)

\* C8 witness: a trend-unstack exit at a profit
C8_Witness ==
    /\ pc = "done"
    /\ trade.exit_reason = "Daily EMA unstack"
    /\ trade.result = "WIN"
    /\ DailyBarsAt(hist.exit_idx) >= MIN_DAILY_BARS

\* Loop positions at which `(i - entry_bar_idx) % 48 == 0` holds, up to the bar
\* the trade left the loop at (the whole loop range for a max-hold close)
DuePositions ==
    { k \in (entry_bar_idx + 1)..(IF hist.exit_idx = -1 THEN MaxBars(df_30m, entry_bar_idx) - 1
                                  ELSE hist.exit_idx) :
        (k - entry_bar_idx) % DAILY_CHECK_BARS = 0 }

\* C19: when the daily series is empty, or fewer than 5 daily bars are dated on
\* or before the current bar, simulate_trade_exit skips the trend-unstack check
\* for that bar and keeps stepping; the trade then ends only by a stop exit or
\* by the max-hold close, never with reason 'Daily EMA unstack', and nothing is
\* raised.
C19_TooFewDailyBars ==
    /\ trade.exit_reason = "Daily EMA unstack" =>
          /\ df_daily # <<>>
          /\ DailyBarsAt(hist.exit_idx) >= MIN_DAILY_BARS
    /\ pc = "done" =>
          /\ \A k \in DuePositions :
                (df_daily = <<>> \/ DailyBarsAt(k) < MIN_DAILY_BARS) /\ hist.exit_idx = k =>
                    trade.exit_reason \in {"Stop loss hit", "Gold candle close filter"}
          /\ (df_daily = <<>> \/ \A k \in DuePositions : DailyBarsAt(k) < MIN_DAILY_BARS) =>
                /\ trade.exit_reason \in
                      {"Stop loss hit", "Gold candle close filter", "Max hold period"}
                /\ trade.result \in {"WIN", "LOSS"}

\* A trade that passed a due bar with 3 daily bars on which stacking had just
\* been lost, and was closed later by the max-hold rule
C19_Witness ==
    /\ pc = "done"
    /\ df_daily # <<>>
    /\ trade.exit_reason = "Max hold period"
    /\ \E k \in DuePositions :
          /\ DailyBarsAt(k) > 0
          /\ DailyBarsAt(k) < MIN_DAILY_BARS
          /\ UnstackAt(k)

----------------------------------------------------------------------------
(* Specification SpecVal: one call of validate_trident_pattern on a table that
   calculate_emas has enriched, as main.scan_symbols makes it *)

\* Longest table of the exhaustive family
MaxValLen == 6

\* Candle shapes of the exhaustive family: two bodies high in the range, two
\* narrow candles low in the range, one flat candle
ValShapes ==
    { Shape(6, 8, 5, 5), Shape(5, 6, 3, 3), Shape(2, 4, 2, 2), Shape(1, 3, 1, 1),
      Shape(1, 1, 1, 1) }

\* 00:00 New York time on day 10
ValMidnightNY == SimT0 + NY_UTC_OFFSET_MIN

\* Minutes the market is closed in a table with a hole
HoleMinutes == 8 * BAR_MINUTES

\* A table with `hole` minutes missing before the row of index hole_at
MakeTableWithHole(t0, shapes, hole_at, hole) ==
    [k \in 1..Len(shapes) |->
        MakeRow(t0 + BAR_MINUTES * (k - 1) + (IF k - 1 >= hole_at THEN hole ELSE 0),
                shapes[k])]

\* Tables of the timed family: two short setups in a row, one long setup, one
\* short setup, no setup
ValTimedShapes ==
    { << Shape(6, 8, 5, 5), Shape(6, 8, 5, 5), Shape(1, 1, 1, 1), Shape(1, 3, 1, 1),
         Shape(2, 4, 2, 2), Shape(5, 6, 3, 3) >>,
      << Shape(2, 4, 2, 2), Shape(6, 8, 5, 5), Shape(6, 8, 5, 5), Shape(1, 3, 1, 1),
         Shape(5, 6, 3, 3), Shape(6, 8, 5, 5) >>,
      << Shape(6, 8, 5, 5), Shape(6, 8, 5, 5), Shape(1, 3, 1, 1), Shape(2, 4, 2, 2),
         Shape(2, 4, 2, 2), Shape(2, 4, 2, 2) >>,
      << Shape(1, 1, 1, 1), Shape(1, 1, 1, 1), Shape(1, 1, 1, 1), Shape(1, 1, 1, 1),
         Shape(1, 1, 1, 1), Shape(1, 1, 1, 1) >> }

ValStart(table, sym, chk, gold_hard) ==
    /\ pc = "scan"
    /\ symbol = sym
    /\ check_time = chk
    /\ GOLD_USE_HARD_SL = gold_hard
    /\ df_30m = table
    /\ df_daily = <<>>
    /\ signal = NoSignal
    /\ trade = NoTrade
    /\ entry_bar_idx = 0
    /\ i = 0
    /\ start_idx = 0
    /\ seen_entry_times = {}
    /\ last_trade_idx = 0
    /\ result = BacktestResult(sym)
    /\ LiveIdle
    /\ hist = NoHist

\* Every table of at most MaxValLen candles over ValShapes, time gate off
InitValShapes ==
    \E n \in 0..MaxValLen :
        \E shapes \in [1..n -> ValShapes] :
            ValStart(MakeTable(ValMidnightNY, shapes), "EURUSD", FALSE, TRUE)

\* The timed tables at every half hour from 00:00 to 05:00 New York time, with
\* and without a hole before the doji, time gate on and off
InitValTimed ==
    \E shapes \in ValTimedShapes, slot \in 0..10, hole \in {0, HoleMinutes},
       sym \in {"EURUSD", "XAUUSD", "GOLD"}, chk \in BOOLEAN, gold_hard \in BOOLEAN :
        ValStart(MakeTableWithHole(ValMidnightNY + BAR_MINUTES * slot, shapes, 3, hole),
                 sym, chk, gold_hard)

\* Three candles in tenths: first-bar high 10.0, third-bar low 10.5
GapScenario == << Shape(98, 100, 97, 99), Shape(100, 106, 100, 106), Shape(106, 108, 105, 107) >>

InitValGap == ValStart(MakeTable(ValMidnightNY, GapScenario), "EURUSD", FALSE, TRUE)

InitVal == InitValShapes \/ InitValTimed \/ InitValGap

\* calculate_emas, then scan_for_signals
Validate ==
    /\ pc = "scan"
    /\ df_30m' = calculate_emas(df_30m, AllPeriodSet)
    /\ signal' = scan_for_signals(df_30m', symbol, check_time, GOLD_USE_HARD_SL)
    /\ pc' = "scanned"
    /\ UNCHANGED <<symbol, check_time, GOLD_USE_HARD_SL, df_daily, trade, entry_bar_idx,
                   i, start_idx, seen_entry_times, last_trade_idx, result, hist, live>>

\* find_fvgs called on the table
FindFvgs ==
    /\ pc = "scan"
    /\ hist' = [hist EXCEPT !.returned = find_fvgs(df_30m, check_time)]
    /\ pc' = "found"
    /\ UNCHANGED <<symbol, check_time, GOLD_USE_HARD_SL, df_30m, df_daily, signal, trade,
                   entry_bar_idx, i, start_idx, seen_entry_times, last_trade_idx, result, live>>

NextVal == Validate \/ FindFvgs

SpecVal == InitVal /\ [][NextVal]_vars

----------------------------------------------------------------------------
(* Properties of validate_trident_pattern (SpecVal) *)

\* Candles k, k+1, k+2 form a gap that find_fvgs reports under the time gate chk
IsUpGap(df, k, chk) ==
    /\ Row(df, k + 2).low > Row(df, k).high
    /\ chk => is_in_fvg_window(Row(df, k + 1).time)

IsDownGap(df, k, chk) ==
    /\ Row(df, k + 2).high < Row(df, k).low
    /\ chk => is_in_fvg_window(Row(df, k + 1).time)

\* The gap starting at k ends at g3 = k + 2 with g3 + 2 inside the table, and
\* passes every gate of the long setup, comparisons inclusive
PassesLong(df, k, chk) ==
    /\ k + 4 < Len(df)
    /\ IsUpGap(df, k, chk)
    /\ LET doji == Row(df, k + 3)
           confirm == Row(df, k + 4)
       IN  /\ is_doji(doji)
           /\ 2 * doji.low <= Row(df, k).high + Row(df, k + 2).low
           /\ confirm.close <= doji.high
           /\ are_emas_stacked(df, "long", k + 4)
           /\ get_200ema_bias(df, k + 4) = "long"
           /\ chk => is_in_kill_zone(confirm.time)

PassesShort(df, k, chk) ==
    /\ k + 4 < Len(df)
    /\ IsDownGap(df, k, chk)
    /\ LET doji == Row(df, k + 3)
           confirm == Row(df, k + 4)
       IN  /\ is_doji(doji)
           /\ 2 * doji.high >= Row(df, k).low + Row(df, k + 2).high
           /\ confirm.close >= doji.low
           /\ are_emas_stacked(df, "short", k + 4)
           /\ get_200ema_bias(df, k + 4) = "short"
           /\ chk => is_in_kill_zone(confirm.time)

\* First-candle indices of the gaps of df_30m that pass every gate
PassingGaps ==
    { k \in 0..(Len(df_30m) - 3) :
        PassesLong(df_30m, k, check_time) \/ PassesShort(df_30m, k, check_time) }

Last(S) == CHOOSE x \in S : \A y \in S : y <= x

\* C2 as stated: every returned signal has its stop-loss on the losing side of
\* its entry price, below the entry for a BUY and above the entry for a SELL.
C2_StopOnLosingSide ==
    (pc = "scanned" /\ signal # NoSignal) =>
        /\ signal.direction = "BUY" => signal.stop_loss < signal.entry_price
        /\ signal.direction = "SELL" => signal.stop_loss > signal.entry_price

\* C4: a call returns at most one signal, and a returned signal is the one built
\* on the most recent gap that passes every check: its gap is the passing gap
\* of greatest index, and its entry is that gap's confirmation candle.
C4_MostRecentPassingGap ==
    (pc = "scanned" /\ signal # NoSignal) =>
        /\ PassingGaps # {}
        /\ signal.fvg.candle1_idx = Last(PassingGaps)
        /\ signal.confirmation_idx = Last(PassingGaps) + 4
        /\ signal.entry_price = Row(df_30m, Last(PassingGaps) + 4).close
        /\ signal.direction =
             (IF PassesLong(df_30m, Last(PassingGaps), check_time) THEN "BUY" ELSE "SELL")

\* Two gaps pass every check and the signal is built on the later one
C4_Witness ==
    /\ pc = "scanned"
    /\ Cardinality(PassingGaps) >= 2
    /\ signal # NoSignal
    /\ signal.fvg.candle1_idx = Last(PassingGaps)

----------------------------------------------------------------------------
(* Specification SpecBT: backtest_symbol, one pass of the window loop per step *)

\* Most steps of the window start that a table allows
MaxSteps == 3

BTBase == Shape(4, 4, 4, 4)

\* Five candles with no gap
BlockNone == << BTBase, BTBase, BTBase, BTBase, BTBase >>

\* Up gap, doji wicking to the midpoint, confirmation inside the doji
BlockBuy ==
    << Shape(4, 4, 4, 4), Shape(4, 7, 4, 7), Shape(7, 8, 6, 7), Shape(7, 7, 5, 7),
       Shape(7, 7, 6, 6) >>

\* Down gap, doji, confirmation
BlockSell ==
    << Shape(7, 7, 5, 6), Shape(3, 4, 3, 4), Shape(3, 4, 1, 2), Shape(6, 6, 3, 6),
       Shape(6, 6, 3, 3) >>

\* Up gap whose confirmation closes at the impulse candle's low
BlockBuyZero ==
    << Shape(4, 4, 3, 3), Shape(5, 6, 5, 5), Shape(6, 7, 5, 7), Shape(6, 6, 4, 6),
       Shape(5, 5, 4, 5) >>

\* Down gap, doji, confirmation, all below the stop of a BlockSell trade
BlockSellLow ==
    << Shape(3, 3, 3, 3), Shape(3, 3, 1, 1), Shape(1, 2, 1, 1), Shape(2, 3, 1, 2),
       Shape(2, 3, 1, 2) >>

BTBlocks == {BlockNone, BlockBuy, BlockSell, BlockBuyZero}

\* The blocks placed one day after the first
BTSecondBlocks == {BlockNone, BlockSell, BlockSellLow}

\* Levels the candles after the first block sit at
BTTails == {Shape(4, 4, 4, 4), Shape(7, 7, 7, 7), Shape(2, 2, 2, 2)}

\* Candles in a day of 30M candles
BarsPerDay == MinutesPerDay \div BAR_MINUTES

\* Table lengths: none, and each number of window starts with and without one
\* candle more
BTLengths ==
    {0} \cup { WINDOW_SIZE + WINDOW_STEP * w + e : w \in 0..MaxSteps, e \in {0, 1} }

\* Time of the first candle for which the candle of index p + 1 is at 03:00 New
\* York time plus `shift` half hours
BTStartTime(p, shift) ==
    ValMidnightNY + BAR_MINUTES * ((6 + shift + BarsPerDay * 3 - (p + 1)) % BarsPerDay)

\* A table of `len` candles: block b1 at index p, block b2 one day later, BTBase
\* before b1 and `tail` after it
BTTable(len, p, b1, b2, tail, shift) ==
    LET shapeAt(k) ==
            IF k < p THEN BTBase
            ELSE IF k < p + 5 THEN b1[k - p + 1]
            ELSE IF k >= p + BarsPerDay /\ k < p + BarsPerDay + 5 THEN b2[k - p - BarsPerDay + 1]
            ELSE tail
    IN  MakeTable(BTStartTime(p, shift), [k \in 1..len |-> shapeAt(k - 1)])

BTStart(table, daily, sym, gold_hard) ==
    /\ pc = "load"
    /\ symbol = sym
    /\ check_time = TRUE
    /\ GOLD_USE_HARD_SL = gold_hard
    /\ df_30m = table
    /\ df_daily = daily
    /\ signal = NoSignal
    /\ trade = NoTrade
    /\ entry_bar_idx = 0
    /\ i = 0
    /\ start_idx = 0
    /\ seen_entry_times = {}
    /\ last_trade_idx = 0
    /\ result = BacktestResult(sym)
    /\ LiveIdle
    /\ hist = NoHist

\* Two long setups three candles apart: the confirmation candle of the first
\* is the impulse candle of the second
BlockBuyTwice ==
    << Shape(4, 4, 4, 4), Shape(4, 7, 4, 7), Shape(7, 8, 6, 7), Shape(7, 7, 5, 7),
       Shape(7, 7, 6, 6), Shape(8, 9, 8, 9), Shape(9, 9, 7, 9), Shape(9, 9, 8, 8) >>

\* A table of `len` candles with BlockBuyTwice at index p, the candle of index
\* p + 1 at 02:30 New York time
BTAdjacentTable(len, p, tail) ==
    LET shapeAt(k) ==
            IF k < p THEN BTBase
            ELSE IF k < p + Len(BlockBuyTwice) THEN BlockBuyTwice[k - p + 1]
            ELSE tail
    IN  MakeTable(BTStartTime(p, -1), [k \in 1..len |-> shapeAt(k - 1)])

\* The two setups on either side of the end of the first window, under either
\* value of config.GOLD_USE_HARD_SL
InitBTAdjacent ==
    \E len \in {WINDOW_SIZE + WINDOW_STEP * w + 1 : w \in 1..2}, p \in 41..47,
       tail \in BTTails, sym \in {"EURUSD", "XAUUSD"}, gold_hard \in BOOLEAN :
        BTStart(BTAdjacentTable(len, p, tail), MakeDaily(7, <<>>), sym, gold_hard)

InitBTBlocks ==
    \E len \in BTLengths, p \in {10, 30}, b1 \in BTBlocks, b2 \in BTSecondBlocks,
       tail \in BTTails, shift \in {0, 6},
       sym \in {"EURUSD", "USDJPY", "XAUUSD"}, closes \in {<<>>, <<1, 5, 1, 1, 1>>} :
        BTStart(BTTable(len, p, b1, b2, tail, shift), MakeDaily(7, closes), sym, FALSE)

InitBT == InitBTBlocks \/ InitBTAdjacent

\* backtest_symbol up to the window loop
LoadData ==
    /\ pc = "load"
    /\ IF df_30m = <<>>
       THEN /\ pc' = "done"
            /\ UNCHANGED <<df_30m, df_daily, seen_entry_times, last_trade_idx, live>>
       ELSE /\ pc' = "scan"
            /\ df_30m' = calculate_emas(df_30m, AllPeriodSet)
            /\ df_daily' = IF df_daily # <<>> THEN calculate_emas(df_daily, FastPeriodSet)
                           ELSE df_daily
            /\ seen_entry_times' = {}
            /\ last_trade_idx' = -WINDOW_SIZE
    /\ start_idx' = 0
    /\ UNCHANGED <<symbol, check_time, GOLD_USE_HARD_SL, signal, trade, entry_bar_idx, i,
                   result, hist, live>>

\* One pass of `for start_idx in range(0, len(df_30m) - window_size, window_size // 2)`
ScanWindow ==
    /\ pc = "scan"
    /\ start_idx < Len(df_30m) - WINDOW_SIZE
    /\ LET r == WindowPass(df_30m, df_daily, symbol, GOLD_USE_HARD_SL, start_idx,
                           seen_entry_times, last_trade_idx, result)
       IN  /\ signal' = IF r.skipped THEN signal ELSE r.sig
           /\ seen_entry_times' = r.seen
           /\ last_trade_idx' = r.last_idx
           /\ result' = r.res
           /\ trade' = IF r.traded THEN r.trade ELSE trade
           /\ entry_bar_idx' = IF r.traded THEN r.entry ELSE entry_bar_idx
           /\ hist' = [hist EXCEPT !.scanned = @ \cup {start_idx},
                                   !.discarded = IF r.discarded THEN @ + 1 ELSE @]
    /\ start_idx' = start_idx + WINDOW_STEP
    /\ UNCHANGED <<pc, symbol, check_time, GOLD_USE_HARD_SL, df_30m, df_daily, i, live>>

\* The loop is exhausted: the summary block, `return result`
Summarise ==
    /\ pc = "scan"
    /\ start_idx >= Len(df_30m) - WINDOW_SIZE
    /\ result' = Summary(result)
    /\ pc' = "done"
    /\ UNCHANGED <<symbol, check_time, GOLD_USE_HARD_SL, df_30m, df_daily, signal, trade,
                   entry_bar_idx, i, start_idx, seen_entry_times, last_trade_idx, hist, live>>

NextBT == LoadData \/ ScanWindow \/ Summarise

SpecBT == InitBT /\ [][NextBT]_vars

----------------------------------------------------------------------------
(* Properties of backtest_symbol (SpecBT) *)

\* The deduplication key of a recorded trade
TradeKey(tr) == <<tr.entry_time, tr.entry_price, tr.direction>>

\* C3: no two trades of a symbol's result share the key (entry timestamp,
\* entry price, direction); a pattern that two adjacent windows both detect
\* yields one trade, so the keys seen are exactly the keys of the trades.
C3_NoDuplicateTrades ==
    LET ts == result.trades
    IN  /\ \A a \in 1..Len(ts) : \A b \in 1..Len(ts) :
                a # b => TradeKey(ts[a]) # TradeKey(ts[b])
        /\ pc \in {"scan", "done"} =>
                seen_entry_times = { TradeKey(ts[k]) : k \in 1..Len(ts) }

\* The windows at 0 and 25 were both scanned, a detection was discarded as a
\* duplicate, and the result holds one trade
C3_Witness ==
    /\ pc = "done"
    /\ {0, WINDOW_STEP} \subseteq hist.scanned
    /\ hist.discarded >= 1
    /\ Len(result.trades) = 1

\* C10: for every recorded trade, P&L in pips times the pip size is the signed
\* price move (exit - entry for a long, entry - exit for a short), and the
\* risk:reward ratio is that move divided by |entry - stop|, or 0 when entry =
\* stop; a long entered at 1.1000 with stop 1.0950 and pip 0.0001 that exits
\* at 1.1100 has P&L +100 pips and risk:reward +2.
C10_PnlAndRiskReward ==
    /\ \A k \in 1..Len(result.trades) :
          LET tr == result.trades[k]
              pip_value == get_pip_value(tr.symbol)
              risk == Abs(tr.entry_price - tr.stop_loss)
          IN  /\ tr.pnl_pips * pip_value = Gain(tr) * PIP_SCALE
              /\ tr.rr_ratio.den > 0
              /\ risk = 0 => tr.rr_ratio.num = 0
              /\ risk > 0 => tr.rr_ratio.num * risk = Gain(tr) * tr.rr_ratio.den
    /\ LET tr == CloseTrade(BacktestTrade("EURUSD", "BUY", 11000, 0, 10950),
                            11100, 0, get_pip_value("EURUSD"), "WIN", "")
           rr == RiskReward(tr, get_pip_value("EURUSD"))
       IN  /\ tr.pnl_pips = 100 * PIP_SCALE
           /\ rr.num = 2 * rr.den
           /\ rr.den > 0

\* A result with a losing short trade on a symbol whose pip is not the grid
\* step, and a trade whose entry equals its stop
C10_Witness ==
    /\ pc = "done"
    /\ \E k \in 1..Len(result.trades) :
          /\ result.trades[k].direction = "SELL"
          /\ result.trades[k].pnl_pips < 0
          /\ result.trades[k].rr_ratio.num < 0
          /\ get_pip_value(result.trades[k].symbol) > 1
    /\ \E k \in 1..Len(result.trades) :
          /\ result.trades[k].entry_price = result.trades[k].stop_loss
          /\ result.trades[k].exit_price # result.trades[k].entry_price

----------------------------------------------------------------------------
(* The summary block of backtest_symbol on bounded trade lists (SpecSum) *)

\* Longest trade list drawn
MaxTrades == 5

\* Closed trades of the lists: the price move in pips of a long EURUSD trade
\* entered at 1.1000 with its stop at 1.0950, and how simulate_trade_exit
\* closed it (a stop exit is a LOSS whatever the move, a max-hold close is a
\* WIN exactly when the move is positive)
SumMoves ==
    { [move |-> 10, reason |-> "Max hold period"],
      [move |-> 15, reason |-> "Daily EMA unstack"],
      [move |-> 25, reason |-> "Max hold period"],
      [move |-> -10, reason |-> "Stop loss hit"],
      [move |-> -35, reason |-> "Max hold period"],
      [move |-> 0, reason |-> "Max hold period"] }

SumTrade(m) ==
    LET pip_value == get_pip_value("EURUSD")
        opened == BacktestTrade("EURUSD", "BUY", 11000, 0, 10950)
        outcome == IF m.reason = "Stop loss hit" THEN "LOSS"
                   ELSE ResultOfPnl(opened, 11000 + m.move, pip_value)
        closed == CloseTrade(opened, 11000 + m.move, BAR_MINUTES, pip_value, outcome, m.reason)
    IN  [closed EXCEPT !.rr_ratio = RiskReward(closed, pip_value)]

SumStart(ms) ==
    /\ pc = "summary"
    /\ symbol = "EURUSD"
    /\ check_time = TRUE
    /\ GOLD_USE_HARD_SL = FALSE
    /\ df_30m = <<>>
    /\ df_daily = <<>>
    /\ signal = NoSignal
    /\ trade = NoTrade
    /\ entry_bar_idx = 0
    /\ i = 0
    /\ start_idx = 0
    /\ seen_entry_times = {}
    /\ last_trade_idx = 0
    /\ result = [BacktestResult("EURUSD") EXCEPT
                    !.trades = [k \in 1..Len(ms) |-> SumTrade(ms[k])]]
    /\ LiveIdle
    /\ hist = NoHist

InitSum == \E n \in 0..MaxTrades : \E ms \in [1..n -> SumMoves] : SumStart(ms)

\* The summary block applied to the trade list
SummariseTrades ==
    /\ pc = "summary"
    /\ result' = Summary(result)
    /\ pc' = "summarised"
    /\ UNCHANGED <<symbol, check_time, GOLD_USE_HARD_SL, df_30m, df_daily, signal, trade,
                   entry_bar_idx, i, start_idx, seen_entry_times, last_trade_idx, hist, live>>

NextSum == SummariseTrades

SpecSum == InitSum /\ [][NextSum]_vars

\* The P&L of the trades, in pips
PnlList == [k \in 1..Len(result.trades) |-> result.trades[k].pnl_pips]

\* The cumulative P&L after the first k trades given as P&L values
RECURSIVE CumPnl(_, _)
CumPnl(pnls, k) == IF k = 0 THEN 0 ELSE CumPnl(pnls, k - 1) + pnls[k]

\* C11: the maximum drawdown of a trade list is the maximum over positions k
\* of (the highest cumulative P&L over positions up to k) minus (the cumulative
\* P&L at k); it is never negative and is 0 for an empty list; the cumulative
\* curve [10, 25, 15, 40, 5] gives 35.
C11_MaxDrawdown ==
    pc = "summarised" =>
        LET n == Len(PnlList)
            dd == result.max_drawdown_pips
            drop(j, k) == CumPnl(PnlList, j) - CumPnl(PnlList, k)
        IN  /\ dd >= 0
            /\ n = 0 => dd = 0
            /\ n > 0 => /\ \E k \in 1..n : \E j \in 1..k : dd = drop(j, k)
                        /\ \A k \in 1..n : \A j \in 1..k : drop(j, k) <= dd
            /\ [k \in 1..n |-> CumPnl(PnlList, k)]
                    = <<10 * PIP_SCALE, 25 * PIP_SCALE, 15 * PIP_SCALE, 40 * PIP_SCALE,
                        5 * PIP_SCALE>>
                  => dd = 35 * PIP_SCALE

\* The summary of the list whose cumulative curve is [10, 25, 15, 40, 5]
C11_Witness ==
    /\ pc = "summarised"
    /\ PnlList = <<10 * PIP_SCALE, 15 * PIP_SCALE, -10 * PIP_SCALE, 25 * PIP_SCALE,
                   -35 * PIP_SCALE>>
    /\ result.max_drawdown_pips = 35 * PIP_SCALE

\* C12: in every BacktestResult returned, total_trades is the length of the
\* trade list, wins + losses = total_trades, the win rate is 0 without trades
\* and otherwise wins / total_trades as a percentage (between 0 and 100), and
\* the best / worst trade P&L are the maximum / minimum of the trades' P&L
\* (0 when the list is empty).
C12_SummaryCounts ==
    pc = "done" =>
        LET ts == result.trades
            n == Len(ts)
            pnls == { ts[k].pnl_pips : k \in 1..n }
        IN  /\ result.total_trades = n
            /\ result.wins = Cardinality({ k \in 1..n : ts[k].result = "WIN" })
            /\ result.wins + result.losses = result.total_trades
            /\ result.win_rate.den > 0
            /\ n = 0 => result.win_rate.num = 0
            /\ n > 0 => result.win_rate.num * n = 100 * result.wins * result.win_rate.den
            /\ 0 <= result.win_rate.num
            /\ result.win_rate.num <= 100 * result.win_rate.den
            /\ n = 0 => result.best_trade_pips = 0 /\ result.worst_trade_pips = 0
            /\ n > 0 => /\ result.best_trade_pips \in pnls
                        /\ result.worst_trade_pips \in pnls
                        /\ \A x \in pnls : result.worst_trade_pips <= x
                                           /\ x <= result.best_trade_pips

\* A returned result with a winning and a losing trade of different P&L
C12_Witness ==
    /\ pc = "done"
    /\ result.wins >= 1
    /\ result.losses >= 1
    /\ result.total_trades = Len(result.trades)
    /\ result.worst_trade_pips < result.best_trade_pips

----------------------------------------------------------------------------
(* The indicator functions called on their own (SpecInd) *)

\* Longest indicator table drawn
MaxIndLen == 3

\* Candles of the indicator tables: a falling and a rising pair, a candle of
\* zero range and a candle whose body is exactly 3/10 of its range
IndShapes ==
    { Shape(6, 8, 5, 5), Shape(2, 4, 2, 2), Shape(1, 1, 1, 1), Shape(10, 17, 7, 13) }

\* Candles given to is_doji alone: those, and the candle open 100.00, high
\* 100.10, low 99.95, close 100.02 in hundredths
DojiShapes == IndShapes \cup { Shape(10000, 10010, 9995, 10002) }

\* Values of config.EMA_FAST_PERIODS
IndPeriodLists == { <<>>, <<5>>, <<5, 9>>, <<9, 5>>, <<5, 5, 9>>, EMA_FAST_PERIODS }

\* Thresholds given to is_doji, as <<numerator, denominator>>
IndThresholds == { <<DojiRatioNum, DojiRatioDen>>, <<1, 10>>, <<0, 1>>, <<1, 1>> }

IndStart(at, table) ==
    /\ pc = at
    /\ symbol = "EURUSD"
    /\ check_time = FALSE
    /\ GOLD_USE_HARD_SL = TRUE
    /\ df_30m = table
    /\ df_daily = <<>>
    /\ signal = NoSignal
    /\ trade = NoTrade
    /\ entry_bar_idx = 0
    /\ i = 0
    /\ start_idx = 0
    /\ seen_entry_times = {}
    /\ last_trade_idx = 0
    /\ result = BacktestResult("EURUSD")
    /\ LiveIdle
    /\ hist = NoHist

\* A table about to receive its indicator columns
InitIndTable ==
    \E n \in 0..MaxIndLen : \E shapes \in [1..n -> IndShapes] :
        IndStart("ind", MakeTable(ValMidnightNY, shapes))

\* A candle about to be classified
InitIndCandle ==
    \E shape \in DojiShapes : IndStart("candle", MakeTable(ValMidnightNY, <<shape>>))

InitInd == InitIndTable \/ InitIndCandle

\* calculate_emas for the configured periods, then are_emas_stacked in both
\* directions and get_200ema_bias at an index from two below -len to one
\* above len - 1
StackedAndBias ==
    /\ pc = "ind"
    /\ \E periods \in IndPeriodLists :
       \E index \in (-(Len(df_30m) + 2))..(Len(df_30m) + 1) :
          LET df == calculate_emas(df_30m, { periods[k] : k \in 1..Len(periods) }
                                            \cup {EMA_TREND_PERIOD})
          IN  /\ df_30m' = df
              /\ i' = index
              /\ hist' = [hist EXCEPT !.returned =
                            [periods |-> periods,
                             long |-> are_emas_stacked_cfg(periods, df, "long", index),
                             short |-> are_emas_stacked_cfg(periods, df, "short", index),
                             bias |-> get_200ema_bias(df, index)]]
    /\ pc' = "stacked"
    /\ UNCHANGED <<symbol, check_time, GOLD_USE_HARD_SL, df_daily, signal, trade,
                   entry_bar_idx, start_idx, seen_entry_times, last_trade_idx, result, live>>

\* is_doji on a candle of the table with a threshold
Doji ==
    /\ pc \in {"ind", "candle"}
    /\ \E index \in 0..(Len(df_30m) - 1) : \E t \in IndThresholds :
          /\ i' = index
          /\ hist' = [hist EXCEPT !.returned =
                        [threshold |-> t,
                         doji |-> is_doji_threshold(Row(df_30m, index), t[1], t[2])]]
    /\ pc' = "doji"
    /\ UNCHANGED <<symbol, check_time, GOLD_USE_HARD_SL, df_30m, df_daily, signal, trade,
                   entry_bar_idx, start_idx, seen_entry_times, last_trade_idx, result, live>>

NextInd == StackedAndBias \/ Doji

SpecInd == InitInd /\ [][NextInd]_vars

\* The averages of the configured periods, in list order, at row r (1-based)
Averages(r) ==
    [k \in 1..Len(hist.returned.periods) |-> df_30m[r].ema[hist.returned.periods[k]]]

\* C13 as stated: for every configured list of fast periods, every indicator
\* table and every index, are_emas_stacked 'long' and 'short' are never both
\* true, and a tie between adjacent averages makes both false.
C13_Original ==
    pc = "stacked" =>
        /\ ~(hist.returned.long /\ hist.returned.short)
        /\ \A r \in 1..Len(df_30m) :
              (/\ r = (IF i >= 0 THEN i + 1 ELSE Len(df_30m) + i + 1)
               /\ \E k \in 1..(Len(Averages(r)) - 1) : Averages(r)[k] = Averages(r)[k + 1])
              => ~hist.returned.long /\ ~hist.returned.short

\* C13: for every configured list of at least two fast periods, every
\* indicator table and every index, are_emas_stacked 'long' and 'short' are
\* never both true, and a tie between adjacent averages makes both false; with
\* fewer than two periods both are true at every index inside the table.
C13_NeverBothStacked ==
    pc = "stacked" =>
        /\ Len(hist.returned.periods) >= 2 =>
              /\ ~(hist.returned.long /\ hist.returned.short)
              /\ \A r \in 1..Len(df_30m) :
                    (/\ r = (IF i >= 0 THEN i + 1 ELSE Len(df_30m) + i + 1)
                     /\ \E k \in 1..(Len(Averages(r)) - 1) :
                            Averages(r)[k] = Averages(r)[k + 1])
                    => ~hist.returned.long /\ ~hist.returned.short
        /\ Len(hist.returned.periods) < 2 /\ IlocInRange(df_30m, i) =>
              hist.returned.long /\ hist.returned.short

\* The four documented periods at the last row of a table whose averages are
\* all equal there: neither direction is stacked
C13_Witness ==
    /\ pc = "stacked"
    /\ hist.returned.periods = EMA_FAST_PERIODS
    /\ Len(df_30m) = MaxIndLen
    /\ i = -1
    /\ \E k \in 1..3 : Averages(Len(df_30m))[k] = Averages(Len(df_30m))[k + 1]
    /\ ~hist.returned.long
    /\ ~hist.returned.short

\* Whether the averages of row r fall / rise strictly along the period list
StrictlyFalling(r) ==
    \A k \in 1..(Len(Averages(r)) - 1) : Averages(r)[k] > Averages(r)[k + 1]

StrictlyRising(r) ==
    \A k \in 1..(Len(Averages(r)) - 1) : Averages(r)[k] < Averages(r)[k + 1]

\* The side of its trend average the close of row r lies on
BiasOfRow(r) ==
    IF df_30m[r].close * EMA_SCALE > df_30m[r].ema[EMA_TREND_PERIOD] THEN "long"
    ELSE IF df_30m[r].close * EMA_SCALE < df_30m[r].ema[EMA_TREND_PERIOD] THEN "short"
    ELSE "neutral"

\* C18: for a table of n bars, an index i with i >= n or i < -n makes
\* are_emas_stacked false in both directions and get_200ema_bias 'neutral',
\* nothing being raised, while a negative index -k with 1 <= k <= n addresses
\* the k-th bar from the end.
C18_IndexOutOfRange ==
    pc = "stacked" =>
        LET n == Len(df_30m)
        IN  /\ (i >= n \/ i < -n) =>
                  /\ ~hist.returned.long
                  /\ ~hist.returned.short
                  /\ hist.returned.bias = "neutral"
            /\ \A k \in 1..n : i = -k =>
                  /\ hist.returned.long = StrictlyFalling(n - k + 1)
                  /\ hist.returned.short = StrictlyRising(n - k + 1)
                  /\ hist.returned.bias = BiasOfRow(n - k + 1)

\* Index -2 on a table of three bars: the middle bar is stacked long with its
\* close above the trend average, the last bar is neither
C18_Witness ==
    /\ pc = "stacked"
    /\ Len(df_30m) = 3
    /\ i = -2
    /\ hist.returned.periods = EMA_FAST_PERIODS
    /\ hist.returned.long
    /\ hist.returned.bias = "long"
    /\ ~StrictlyFalling(3)
    /\ BiasOfRow(3) # "long"

\* C16: is_doji(candle, t) is true exactly when high > low and
\* |close - open| <= t * (high - low), and false for every candle with high =
\* low; open 100.00, close 100.02, high 100.10, low 99.95 with threshold 0.3
\* is a doji.
C16_DojiExactly ==
    pc = "doji" =>
        LET candle == Row(df_30m, i)
            num == hist.returned.threshold[1]
            den == hist.returned.threshold[2]
        IN  /\ hist.returned.doji =
                  (/\ candle.high > candle.low
                   /\ Abs(candle.close - candle.open) * den
                        <= num * (candle.high - candle.low))
            /\ candle.high = candle.low => ~hist.returned.doji
            /\ (/\ candle.open = 10000 /\ candle.close = 10002
                /\ candle.high = 10010 /\ candle.low = 9995
                /\ num = 3 /\ den = 10) => hist.returned.doji

\* The candle 100.00 / 100.10 / 99.95 / 100.02 tested with threshold 0.3
C16_Witness ==
    /\ pc = "doji"
    /\ Row(df_30m, i).open = 10000
    /\ Row(df_30m, i).close = 10002
    /\ Row(df_30m, i).high = 10010
    /\ Row(df_30m, i).low = 9995
    /\ hist.returned.threshold = <<3, 10>>
    /\ hist.returned.doji

----------------------------------------------------------------------------
(* Properties of find_fvgs and of the signal (SpecVal) *)

\* C14: every gap find_fvgs returns has top > bottom and midpoint = (top +
\* bottom) / 2 strictly between them, with bottom = candle[i].high and top =
\* candle[i+2].low for an up gap, and top = candle[i].low and bottom =
\* candle[i+2].high for a down gap; first-bar high 10.0 and third-bar low 10.5
\* give an up gap with bottom 10.0, top 10.5 and midpoint 10.25 (in tenths:
\* 100, 105, and 205 for twice the midpoint).
C14_GapBounds ==
    pc = "found" =>
        /\ \A k \in 1..Len(hist.returned) :
              LET g == hist.returned[k]
                  candle1 == Row(df_30m, g.candle1_idx)
                  candle3 == Row(df_30m, g.candle1_idx + 2)
              IN  /\ g.top > g.bottom
                  /\ g.midpoint_x2 = g.top + g.bottom
                  /\ 2 * g.bottom < g.midpoint_x2
                  /\ g.midpoint_x2 < 2 * g.top
                  /\ g.direction \in {"bullish", "bearish"}
                  /\ g.direction = "bullish" =>
                        g.bottom = candle1.high /\ g.top = candle3.low
                  /\ g.direction = "bearish" =>
                        g.top = candle1.low /\ g.bottom = candle3.high
        /\ (/\ Len(df_30m) = 3
            /\ Row(df_30m, 0).high = 100
            /\ Row(df_30m, 2).low = 105) =>
              /\ Len(hist.returned) = 1
              /\ hist.returned[1].direction = "bullish"
              /\ hist.returned[1].bottom = 100
              /\ hist.returned[1].top = 105
              /\ hist.returned[1].midpoint_x2 = 205

\* find_fvgs returned a down gap and an up gap
C14_Witness ==
    /\ pc = "found"
    /\ \E k \in 1..Len(hist.returned) : hist.returned[k].direction = "bullish"
    /\ \E k \in 1..Len(hist.returned) : hist.returned[k].direction = "bearish"

\* C15: find_fvgs reports at most one gap per starting index (never an up and
\* a down gap for the same index), and its list is in strictly ascending order
\* of starting index.
C15_OneGapPerIndexAscending ==
    pc = "found" =>
        /\ \A a \in 1..Len(hist.returned) : \A b \in 1..Len(hist.returned) :
              a < b => hist.returned[a].candle1_idx < hist.returned[b].candle1_idx
        /\ \A a \in 1..Len(hist.returned) : \A b \in 1..Len(hist.returned) :
              a # b => hist.returned[a].candle1_idx # hist.returned[b].candle1_idx

\* find_fvgs returned three gaps or more
C15_Witness ==
    /\ pc = "found"
    /\ Len(hist.returned) >= 3

\* C17: for every candle sequence of fewer than 6 bars, the empty one
\* included, validate_trident_pattern returns no signal and raises nothing,
\* and find_fvgs returns an empty list for fewer than 3 bars.
C17_ShortSequences ==
    /\ pc = "scanned" /\ Len(df_30m) < 6 => signal = NoSignal
    /\ pc = "found" /\ Len(df_30m) < 3 => hist.returned = <<>>

\* Five candles that hold a gap passing every gate of the short setup, and no
\* signal
C17_Witness ==
    /\ pc = "scanned"
    /\ Len(df_30m) = 5
    /\ PassingGaps # {}
    /\ signal = NoSignal

\* C20: every signal emitted for a gap ending at g3 has doji index g3+1,
\* confirmation index g3+2, entry price equal to the confirmation candle's
\* close, stop-loss equal to the low of the gap's middle candle for BUY and to
\* its high for SELL, and use_hard_sl true unless the symbol is XAUUSD or GOLD
\* and the configuration selects the close-based filter.
C20_SignalFields ==
    pc = "scanned" /\ signal # NoSignal =>
        LET g3 == signal.fvg.candle3_idx
        IN  /\ \E k \in 1..Len(find_fvgs(df_30m, check_time)) :
                  find_fvgs(df_30m, check_time)[k] = signal.fvg
            /\ signal.doji_idx = g3 + 1
            /\ signal.confirmation_idx = g3 + 2
            /\ signal.entry_price = Row(df_30m, g3 + 2).close
            /\ signal.direction \in {"BUY", "SELL"}
            /\ signal.direction = "BUY" => signal.stop_loss = Row(df_30m, g3 - 1).low
            /\ signal.direction = "SELL" => signal.stop_loss = Row(df_30m, g3 - 1).high
            /\ signal.use_hard_sl = ~(symbol \in {"XAUUSD", "GOLD"} /\ ~GOLD_USE_HARD_SL)

\* A signal on GOLD under the close-based filter
C20_Witness ==
    /\ pc = "scanned"
    /\ signal # NoSignal
    /\ symbol = "GOLD"
    /\ ~GOLD_USE_HARD_SL
    /\ ~signal.use_hard_sl

----------------------------------------------------------------------------
(* The time predicates called on their own (SpecTime) *)

\* Days of half-hourly instants drawn, from the midnight (UTC) of day 10, a
\* Sunday
MaxTimeDays == 7

\* dt.astimezone(tz) of an aware datetime: the same instant on another wall clock
AsTimezone(dt, tz) == Datetime(dt.wall - UtcOffset(dt.tzinfo) + UtcOffset(tz), tz)

TimeStart(dt) ==
    /\ pc = "time"
    /\ symbol = "EURUSD"
    /\ check_time = TRUE
    /\ GOLD_USE_HARD_SL = FALSE
    /\ df_30m = <<>>
    /\ df_daily = <<>>
    /\ signal = NoSignal
    /\ trade = NoTrade
    /\ entry_bar_idx = 0
    /\ i = 0
    /\ start_idx = 0
    /\ seen_entry_times = {}
    /\ last_trade_idx = 0
    /\ result = BacktestResult("EURUSD")
    /\ now = dt
    /\ MAX_OPEN_TRADES = 1
    /\ open_positions = <<>>
    /\ tick = 0
    /\ hist = NoHist

\* Every half hour of MaxTimeDays days, as a UTC datetime, as a New York
\* datetime and as a naive datetime
InitTime ==
    \E slot \in 0..(MaxTimeDays * (MinutesPerDay \div BAR_MINUTES) - 1),
       tz \in {"UTC", "NY", "none"} :
        TimeStart(Datetime(SimT0 + BAR_MINUTES * slot, tz))

\* The three predicates on `now`, and on the same instant expressed in New
\* York time
ClassifyTime ==
    /\ pc = "time"
    /\ LET aware == IF now.tzinfo = "none" THEN Datetime(now.wall, "UTC") ELSE now
           in_ny == AsTimezone(aware, "NY")
       IN  hist' = [hist EXCEPT !.returned =
                      [kill_zone |-> is_in_kill_zone_of(now),
                       fvg_window |-> is_in_fvg_window_of(now),
                       weekday |-> is_weekday(now),
                       in_ny |-> in_ny,
                       ny_kill_zone |-> is_in_kill_zone_of(in_ny),
                       ny_fvg_window |-> is_in_fvg_window_of(in_ny),
                       ny_weekday |-> is_weekday(in_ny)]]
    /\ pc' = "classified"
    /\ UNCHANGED <<symbol, check_time, GOLD_USE_HARD_SL, df_30m, df_daily, signal, trade,
                   entry_bar_idx, i, start_idx, seen_entry_times, last_trade_idx, result,
                   live>>

NextTime == ClassifyTime

SpecTime == InitTime /\ [][NextTime]_vars

\* C21: the kill zone, gap-formation window and trading-day predicates
\* classify a timestamp by its wall clock in New York: the same instant
\* expressed in UTC and in New York time gets the same answer from
\* is_in_kill_zone, is_in_fvg_window and is_weekday.
C21_SameAnswerInBothZones ==
    pc = "classified" /\ now.tzinfo = "UTC" =>
        /\ hist.returned.in_ny.tzinfo = "NY"
        /\ hist.returned.kill_zone = hist.returned.ny_kill_zone
        /\ hist.returned.fvg_window = hist.returned.ny_fvg_window
        /\ hist.returned.weekday = hist.returned.ny_weekday

----------------------------------------------------------------------------
(* Properties of the window loop of backtest_symbol (SpecBT) *)

\* C22: the sliding scan covers the whole candle sequence: for a sequence of
\* n >= 50 candles every index 0..n-1 lies in a scanned window of 50 candles
\* (step 25), so that a valid pattern anywhere in the sequence, in its last
\* candles or in a sequence of exactly 50 candles, reaches the validator.
C22_WindowsCoverSequence ==
    pc = "done" /\ Len(df_30m) >= WINDOW_SIZE =>
        /\ \A k \in 0..(Len(df_30m) - 1) :
              \E s \in hist.scanned : s <= k /\ k < s + WINDOW_SIZE
        /\ validate_trident_pattern(df_30m, symbol, TRUE, GOLD_USE_HARD_SL) # NoSignal
              /\ Len(df_30m) = WINDOW_SIZE
              => result.trades # <<>>

\* The index in df_30m of the candle a trade was entered on
EntryBar(tr) == CHOOSE k \in 0..(Len(df_30m) - 1) : Row(df_30m, k).time = tr.entry_time

\* C23: after the sliding scan accepts a signal, the cool-down suppresses the
\* adjacent re-detections: no second, distinct signal whose entry bar lies
\* within the cool-down distance (10 bars) of an accepted signal's entry bar
\* is accepted as a trade.
C23_CooldownKeepsTradesApart ==
    \A a \in 1..Len(result.trades) : \A b \in 1..Len(result.trades) :
        a # b =>
            Abs(EntryBar(result.trades[a]) - EntryBar(result.trades[b])) >= COOLDOWN_BARS

-----------------------------------------------------------------------------
(* Outcome and stop rule of simulate_trade_exit (SpecSim, SpecBT) *)

\* C25: for every trade returned by simulate_trade_exit, whichever exit rule
\* fired, the outcome agrees with the sign of its P&L: WIN implies
\* pnl_pips > 0 and LOSS implies pnl_pips <= 0, also for a stop that is not on
\* the losing side of the entry.
C25_OutcomeAgreesWithPnl ==
    pc = "done" =>
        /\ trade.result = "WIN" => trade.pnl_pips > 0
        /\ trade.result = "LOSS" => trade.pnl_pips <= 0

\* C26: the forward simulation applies the stop rule announced by the accepted
\* signal: a trade built from a signal with use_hard_sl true is never closed by
\* the close-based filter, and one built from a signal with use_hard_sl false
\* is never closed by the hard price-based stop, for every symbol and every
\* value of the gold hard-stop configuration.
C26_StopRuleOfSignal ==
    (signal # NoSignal /\ trade # NoTrade /\ signal.signal_time = trade.entry_time) =>
        /\ signal.use_hard_sl => trade.exit_reason # "Gold candle close filter"
        /\ ~signal.use_hard_sl => trade.exit_reason # "Stop loss hit"

-----------------------------------------------------------------------------
(* Specification SpecLive: the loop of main(), one scan tick after another *)

\* Passes of the `while True` loop explored
MaxTicks == 2

\* config.SYMBOLS
SYMBOLS == << "EURUSD", "XAUUSD" >>

\* The value place_order and execute_entry return on failure
None == [ticket |-> 0]

\* mt5_connector.get_open_positions: the positions carrying the bot's magic
\* number as the terminal reports them, [] when positions_get returns None
get_open_positions(positions, query_ok) == IF query_ok THEN positions ELSE <<>>

\* mt5_connector.place_order: the result of the market order, None when the
\* terminal has no symbol or tick or the order is not done
place_order(sym, order_type, sl, order_ok, ticket) ==
    IF order_ok THEN [ticket |-> ticket, symbol |-> sym, type |-> order_type, sl |-> sl]
    ELSE None

\* trade_manager.execute_entry: what it returns and the positions it leaves;
\* `seen` is the number of positions the guard compared
execute_entry(sig, positions, max_open, query_ok, order_ok, ticket) ==
    LET open_pos == get_open_positions(positions, query_ok)
    IN  IF Len(open_pos) >= max_open
        THEN [result |-> None, positions |-> positions, seen |-> Len(open_pos)]
        ELSE LET sl == IF sig.use_hard_sl THEN sig.stop_loss ELSE 0
                 placed == place_order(sig.symbol, sig.direction, sl, order_ok, ticket)
             IN  [result |-> placed,
                  positions |-> IF placed = None THEN positions ELSE Append(positions, placed),
                  seen |-> Len(open_pos)]

\* What get_candles(symbol, 30M, count=200) may hand back: nothing, no setup,
\* a long setup confirmed on the last candle, the same setup one and two
\* candles later
LiveTable(before, block, after) ==
    MakeTable(BTStartTime(before, 0),
              [k \in 1..before |-> BTBase] \o block \o [k \in 1..after |-> Shape(6, 6, 6, 6)])

LiveTables ==
    { <<>>, LiveTable(2, BlockNone, 0), LiveTable(2, BlockBuy, 0), LiveTable(2, BlockBuy, 1),
      LiveTable(2, BlockBuy, 2) }

\* What get_ny_now() may read: Sunday 04:00, Monday 04:00, Monday 12:00
LiveClock ==
    { Datetime(MinutesPerDay * d + 60 * h, "NY") : d \in {10, 11}, h \in {4, 12} }
        \ { Datetime(MinutesPerDay * 10 + 60 * 12, "NY") }

LiveStart(max_open, gold_hard) ==
    /\ pc = "loop"
    /\ symbol = SYMBOLS[1]
    /\ check_time = TRUE
    /\ GOLD_USE_HARD_SL = gold_hard
    /\ df_30m = <<>>
    /\ df_daily = <<>>
    /\ signal = NoSignal
    /\ trade = NoTrade
    /\ entry_bar_idx = 0
    /\ i = 1
    /\ start_idx = 0
    /\ seen_entry_times = {}
    /\ last_trade_idx = 0
    /\ result = BacktestResult("")
    /\ now = Datetime(0, "none")
    /\ MAX_OPEN_TRADES = max_open
    /\ open_positions = <<>>
    /\ tick = 0
    /\ hist = NoHist

InitLive == \E max_open \in {1, 2}, gold_hard \in BOOLEAN : LiveStart(max_open, gold_hard)

\* The head of the loop: the clock is read, a weekend sleeps and starts over,
\* the kill zone with the limits respected goes on to scan_symbols, anything
\* else goes straight to monitor_open_positions
LoopHead ==
    /\ pc = "loop"
    /\ tick < MaxTicks
    /\ \E ny_now \in LiveClock, limits_ok \in BOOLEAN :
          /\ now' = ny_now
          /\ IF ~is_weekday(ny_now) THEN pc' = "loop" /\ tick' = tick + 1
             ELSE IF is_in_kill_zone_of(ny_now) /\ limits_ok THEN pc' = "scan" /\ tick' = tick
             ELSE pc' = "monitor" /\ tick' = tick
    /\ i' = 1
    /\ symbol' = SYMBOLS[1]
    /\ UNCHANGED <<check_time, GOLD_USE_HARD_SL, df_30m, df_daily, signal, trade,
                   entry_bar_idx, start_idx, seen_entry_times, last_trade_idx, result,
                   MAX_OPEN_TRADES, open_positions, hist>>

\* One pass of `for symbol in config.SYMBOLS` in scan_symbols
ScanSymbol ==
    /\ pc = "scan"
    /\ i <= Len(SYMBOLS)
    /\ \E fetched \in LiveTables, query_ok \in BOOLEAN, order_ok \in BOOLEAN :
          LET sym == SYMBOLS[i]
              df == IF fetched = <<>> THEN fetched ELSE calculate_emas(fetched, AllPeriodSet)
              sig == IF fetched = <<>> THEN NoSignal
                     ELSE scan_for_signals(df, sym, TRUE, GOLD_USE_HARD_SL)
              r == IF sig = NoSignal THEN [result |-> None, positions |-> open_positions, seen |-> 0]
                   ELSE execute_entry(sig, open_positions, MAX_OPEN_TRADES, query_ok, order_ok,
                                      Len(hist.orders) + 1)
          IN  /\ symbol' = sym
              /\ df_30m' = df
              /\ signal' = sig
              /\ open_positions' = r.positions
              /\ hist' = [hist EXCEPT
                            !.returned = IF sig = NoSignal THEN <<>>
                                         ELSE [result |-> r.result, seen |-> r.seen,
                                               open_before |-> Len(open_positions)],
                            !.orders = IF r.result = None THEN @
                                       ELSE Append(@, [symbol |-> sym,
                                                       signal_time |-> sig.signal_time,
                                                       tick |-> tick,
                                                       seen |-> r.seen,
                                                       open_before |-> Len(open_positions)])]
    /\ i' = i + 1
    /\ pc' = IF i = Len(SYMBOLS) THEN "monitor" ELSE "scan"
    /\ UNCHANGED <<check_time, GOLD_USE_HARD_SL, df_daily, trade, entry_bar_idx, start_idx,
                   seen_entry_times, last_trade_idx, result, now, MAX_OPEN_TRADES, tick>>

\* monitor_open_positions and the sleep that ends the pass: each position the
\* terminal reports may be closed on its daily chart or by the gold filter; the
\* locals of scan_symbols are gone
Monitor ==
    /\ pc = "monitor"
    /\ \E closing \in SUBSET (1..Len(open_positions)) :
          open_positions' = SelectSeq(open_positions,
                                LAMBDA pos : \A k \in closing : open_positions[k].ticket # pos.ticket)
    /\ pc' = "loop"
    /\ tick' = tick + 1
    /\ df_30m' = <<>>
    /\ signal' = NoSignal
    /\ hist' = [hist EXCEPT !.returned = <<>>]
    /\ UNCHANGED <<symbol, check_time, GOLD_USE_HARD_SL, df_daily, trade,
                   entry_bar_idx, i, start_idx, seen_entry_times, last_trade_idx, result,
                   now, MAX_OPEN_TRADES>>

NextLive == LoopHead \/ ScanSymbol \/ Monitor

SpecLive == InitLive /\ [][NextLive]_vars

\* C24: a signal is acted on once per valid pattern: while the same pattern
\* stays inside the fetched candles over successive scan ticks, at most one
\* order is placed for it on its symbol.
C24_OneOrderPerPattern ==
    \A a \in 1..Len(hist.orders) : \A b \in 1..Len(hist.orders) :
        a # b =>
            ~ /\ hist.orders[a].symbol = hist.orders[b].symbol
              /\ hist.orders[a].signal_time = hist.orders[b].signal_time

\* C27: execute_entry places an order only when the bot has fewer than
\* MAX_OPEN_TRADES positions open, so the positions opened by the bot never
\* number more than MAX_OPEN_TRADES, and a refused entry returns None.
C27_NeverAboveMaxOpenTrades ==
    /\ Len(open_positions) <= MAX_OPEN_TRADES
    /\ \A a \in 1..Len(hist.orders) : hist.orders[a].open_before < MAX_OPEN_TRADES
    /\ (pc \in {"scan", "monitor"} /\ hist.returned # <<>>
            /\ hist.returned.seen >= MAX_OPEN_TRADES) => hist.returned.result = None

====
